---- MODULE Spec2Model ----
(***************************************************************************)
(* A model of typedi's Container (src/src/typedi/container.py): the type   *)
(* descriptors, the indexed provider storage, the three instance providers *)
(* and the recursive resolution with its proxy recursion guard.            *)
(*                                                                         *)
(* One action is one public call on the container.  A call runs to         *)
(* completion on the caller's thread, so the recursion of the resolution   *)
(* is a family of recursive operators that thread the mutable state (the   *)
(* provider fields, the heap of created objects, the proxies, the event    *)
(* log) through every nested call in the order the code makes them.        *)
(***************************************************************************)
EXTENDS Naturals, Sequences, FiniteSets, TLC

\* ---------------------------------------------------------------- bounds

\* User registrations per run (the container's own self-registration is extra).
MaxProviders == 2
\* Top-level resolve / get_all_instances calls per run.
MaxCalls == 2
\* Nesting depth of FactoryInstanceProvider.get_instance, and of
\* filter_instances_of_terminal_type, at which the model reports the
\* interpreter's RecursionError.
MaxDepth == 6
\* Components of the tuple descriptors put to contains / resolves / hash.
MaxArity == 2

\* ------------------------------------------------------- the user program

\* The classes of the user program.  P is the base class of A and of C;
\* tuple and generator are the builtin classes of the iterable products;
\* object is the implicit root and is not listed.
Classes == {"Container", "P", "A", "B", "C", "X", "tuple", "generator"}

\* cls.__mro__[:-1]: the class and its bases, object excluded.
mro(c) == IF c \in {"A", "C"} THEN <<c, "P">> ELSE <<c>>

SeqToSet(s) == {s[i] : i \in 1..Len(s)}

\* issubclass(sub, sup)
issubclass(sub, sup) == sup \in SeqToSet(mro(sub))

\* ---- Python type expressions (what the user writes in annotations) ------
PyClass(c) == [k |-> "class", c |-> c, args |-> <<>>]
PyNone == [k |-> "NoneType", c |-> "", args |-> <<>>]
PyUnion(args) == [k |-> "Union", c |-> "", args |-> args]
PyOptional(t) == PyUnion(<<t, PyNone>>)
PyList(t) == [k |-> "List", c |-> "", args |-> <<t>>]
PyIterable(t) == [k |-> "Iterable", c |-> "", args |-> <<t>>]
PyTuple(args) == [k |-> "Tuple", c |-> "", args |-> args]
\* the callable f handed to a registration call
PyCallable(f) == [k |-> "callable", c |-> f, args |-> <<>>]

\* ---- MetaType descriptors of container.py -------------------------------
ClassType(c) == [k |-> "ClassType", c |-> c, ts |-> <<>>]
NoneTerminalType == [k |-> "NoneTerminalType", c |-> "", ts |-> <<>>]
UnionType(ts) == [k |-> "UnionType", c |-> "", ts |-> ts]
ListType(t) == [k |-> "ListType", c |-> "", ts |-> <<t>>]
IterableType(t) == [k |-> "IterableType", c |-> "", ts |-> <<t>>]

\* python_type_to_meta: NoneType, then classes, then generics by origin:
\* Union; every origin that is a Sequence (list, tuple) becomes a ListType
\* of the FIRST argument; every other Iterable origin an IterableType.
RECURSIVE python_type_to_meta(_)
python_type_to_meta(t) ==
    CASE t.k = "NoneType" -> NoneTerminalType
      [] t.k = "class" -> ClassType(t.c)
      [] t.k = "Union" ->
            UnionType([i \in 1..Len(t.args) |-> python_type_to_meta(t.args[i])])
      [] t.k \in {"List", "Tuple"} -> ListType(python_type_to_meta(t.args[1]))
      [] t.k = "Iterable" -> IterableType(python_type_to_meta(t.args[1]))

\* ---- values -------------------------------------------------------------
\* A value is a reference: to a heap object, to None, to an ObjectProxy, to
\* a list of values, or to a not yet consumed generator over a descriptor.
Obj(n) == [k |-> "obj", id |-> n, items |-> <<>>, t |-> NoneTerminalType]
None == [k |-> "None", id |-> 0, items |-> <<>>, t |-> NoneTerminalType]
Proxy(n) == [k |-> "proxy", id |-> n, items |-> <<>>, t |-> NoneTerminalType]
ListV(items) == [k |-> "list", id |-> 0, items |-> items, t |-> NoneTerminalType]
Generator(t) == [k |-> "generator", id |-> 0, items |-> <<>>, t |-> t]
\* The generator of iterate_instances(t) after its first next(): its
\* reversed() iterator stands at position n of the bucket of t (0: nothing
\* is left, or the generator has ended), and `yielded` holds the item its
\* last next() gave, if it gave one.
StartedGenerator(t, n, yielded) ==
    [k |-> "generator", id |-> n + 1, items |-> yielded, t |-> t]
\* An item a generator has not made yet: its statement yield c() has not run.
Pending(c) == [k |-> "pending", id |-> 0, items |-> <<>>, t |-> ClassType(c)]
\* the marker of a keyword argument left out of the call (its default is used)
Omitted == [k |-> "omitted", id |-> 0, items |-> <<>>, t |-> NoneTerminalType]

\* ---- the factories of the user program ----------------------------------
\* A parameter: its annotation (ann, when has_ann), its inspect kind and
\* whether it has a default.
Param(ann, has_default) ==
    [has_ann |-> TRUE, ann |-> ann, kind |-> "normal", has_default |-> has_default]
\* a parameter of inspect kind `kind` without annotation: x, x=5, *args, **kwargs
Bare(kind, has_default) ==
    [has_ann |-> FALSE, ann |-> PyNone, kind |-> kind, has_default |-> has_default]
\* *args: ann
Variadic(ann) ==
    [has_ann |-> TRUE, ann |-> ann, kind |-> "var_positional", has_default |-> FALSE]
\* **kwargs: ann
Keywords(ann) ==
    [has_ann |-> TRUE, ann |-> ann, kind |-> "var_keyword", has_default |-> FALSE]

\* A factory: the declared return type (ret, when has_ret), the parameters
\* in signature order, and what the callable returns: a new object of class
\* makes (holding the arguments), None when makes = "None", a new tuple
\* (A(), B()) when makes = "tuple", a new generator when makes = "generator":
\* the callable is a generator function, yield A(); yield B(), whose body
\* runs only as far as its items are asked for.
Factory(ret, params, makes) ==
    [has_ret |-> TRUE, ret |-> ret, params |-> params, makes |-> makes]

FactoryNames ==
    {"A", "AofB", "BofA", "AofA", "AofAX", "OptA_None", "AorB_A", "no_return",
     "AdefX", "AorB_ofB", "GenAB", "TupAB", "AofContainer"}

factories(f) ==
    CASE f = "A" -> Factory(PyClass("A"), <<>>, "A")
      [] f = "AofB" -> Factory(PyClass("A"), <<Param(PyClass("B"), FALSE)>>, "A")
      [] f = "BofA" -> Factory(PyClass("B"), <<Param(PyClass("A"), FALSE)>>, "B")
      [] f = "AofA" -> Factory(PyClass("A"), <<Param(PyClass("A"), FALSE)>>, "A")
      [] f = "AofAX" ->
            Factory(PyClass("A"),
                    <<Param(PyClass("A"), FALSE), Param(PyClass("X"), FALSE)>>, "A")
      [] f = "OptA_None" -> Factory(PyOptional(PyClass("A")), <<>>, "None")
      [] f = "AorB_A" ->
            Factory(PyUnion(<<PyClass("A"), PyClass("B")>>), <<>>, "A")
      [] f = "no_return" ->
            [has_ret |-> FALSE, ret |-> PyNone, params |-> <<>>, makes |-> "A"]
      [] f = "AdefX" -> Factory(PyClass("A"), <<Param(PyClass("X"), TRUE)>>, "A")
      [] f = "AorB_ofB" ->
            Factory(PyUnion(<<PyClass("A"), PyClass("B")>>),
                    <<Param(PyClass("B"), FALSE)>>, "A")
      [] f = "GenAB" ->
            Factory(PyIterable(PyUnion(<<PyClass("A"), PyClass("B")>>)),
                    <<>>, "generator")
      [] f = "TupAB" ->
            Factory(PyTuple(<<PyClass("A"), PyClass("B")>>), <<>>, "tuple")
      [] f = "AofContainer" ->
            Factory(PyClass("A"), <<Param(PyClass("Container"), FALSE)>>, "A")
      [] f = "A_x" -> Factory(PyClass("A"), <<Bare("normal", FALSE)>>, "A")
      [] f = "A_x_default" -> Factory(PyClass("A"), <<Bare("normal", TRUE)>>, "A")
      [] f = "A_args" -> Factory(PyClass("A"), <<Bare("var_positional", FALSE)>>, "A")
      [] f = "A_kwargs" -> Factory(PyClass("A"), <<Bare("var_keyword", FALSE)>>, "A")
      [] f = "A_args_B" -> Factory(PyClass("A"), <<Variadic(PyClass("B"))>>, "A")
      [] f = "A_kwargs_B" -> Factory(PyClass("A"), <<Keywords(PyClass("B"))>>, "A")
      [] f = "A_B_kwargs" ->
            Factory(PyClass("A"),
                    <<Param(PyClass("B"), FALSE), Bare("var_keyword", FALSE)>>, "A")

\* The factories whose signatures have parameters without annotation,
\* *args or **kwargs: def f(x), f(x=5), f(*args), f(**kwargs), f(*args: B),
\* f(**kwargs: B), f(b: B, **kwargs), all declared -> A.
SignatureFactories ==
    {"A_x", "A_x_default", "A_args", "A_kwargs", "A_args_B", "A_kwargs_B",
     "A_B_kwargs"}

\* The classes register_instance is called with an instance of; the
\* instance of tuple is (A(), B()), the instance of Container is another
\* container than the one the calls are made on.
InstanceClasses == {"A", "B", "C", "X", "tuple", "Container"}


\* ---------------------------------------------------------------- storage

\* iterate_possible_terminal_types: the index keys of an advertised type, in
\* the order the code yields them.
RECURSIVE iterate_possible_terminal_types(_)
RECURSIVE terminal_types_of_members(_, _)
terminal_types_of_members(ts, i) ==
    IF i > Len(ts) THEN <<>>
    ELSE iterate_possible_terminal_types(ts[i]) \o terminal_types_of_members(ts, i + 1)

iterate_possible_terminal_types(t) ==
    CASE t.k = "ClassType" -> [i \in 1..Len(mro(t.c)) |-> ClassType(mro(t.c)[i])]
      [] t.k = "NoneTerminalType" -> <<t>>
      [] t.k = "UnionType" -> terminal_types_of_members(t.ts, 1)
      [] t.k \in {"ListType", "IterableType"} ->
            iterate_possible_terminal_types(t.ts[1])

\* The dictionary key of a terminal type.  ClassType hashes and compares by
\* its class.  NoneTerminalType defines neither __hash__ nor __eq__, so every
\* NoneTerminalType object is a key of its own: n numbers them.
ClassKey(c) == [k |-> "ClassType", c |-> c, n |-> 0]
NoneKey(n) == [k |-> "NoneTerminalType", c |-> "", n |-> n]
index_key(index, t) ==
    IF t.k = "ClassType" THEN ClassKey(t.c)
    ELSE NoneKey(1 + Cardinality({x \in DOMAIN index : x.k = "NoneTerminalType"}))

\* providers_index[key] of a defaultdict(list)
bucket(index, key) == IF key \in DOMAIN index THEN index[key] ELSE <<>>

\* CachedStorage.add: append the provider to the bucket of every terminal
\* type of its advertised type.
RECURSIVE add_terminals(_, _, _, _)
add_terminals(index, p, terms, i) ==
    IF i > Len(terms) THEN index
    ELSE LET key == index_key(index, terms[i])
             appended == Append(bucket(index, key), p)
             next == [x \in DOMAIN index \cup {key} |->
                         IF x = key THEN appended ELSE index[x]]
         IN add_terminals(next, p, terms, i + 1)

add(index, p, type) ==
    add_terminals(index, p, iterate_possible_terminal_types(type), 1)

Reverse(s) == [i \in 1..Len(s) |-> s[Len(s) + 1 - i]]

\* A storage that answers oldest first (query without reversed()).
query_oldest_first(index, t) == bucket(index, ClassKey(t.c))

\* CachedStorage.query: the bucket of the queried terminal type, newest first.
query(index, t) == Reverse(bucket(index, ClassKey(t.c)))

\* A lookup that takes the newest provider of the bucket out of the index.
looked_up_and_popped(s, t) ==
    [s EXCEPT !.index = [x \in DOMAIN s.index \cup {ClassKey(t.c)} |->
                            IF x = ClassKey(t.c) /\ bucket(s.index, x) # <<>>
                            THEN SubSeq(s.index[x], 1, Len(s.index[x]) - 1)
                            ELSE bucket(s.index, x)]]

\* self.providers_index[type_] of the defaultdict(list): looking up a key
\* that is missing stores the empty bucket under it.  The lookup runs when
\* the generator of query is asked for its first provider.
looked_up(s, t) ==
    [s EXCEPT !.index = [x \in DOMAIN s.index \cup {ClassKey(t.c)} |->
                            bucket(s.index, x)]]

\* -------------------------------------------------------------- providers

\* An InstanceProvider object.  kind is its class; inst the instance of a
\* ConstInstanceProvider; f the factory of a FactoryInstanceProvider; guard
\* its _proxy_recursion_guard; memo the _instance of the
\* SingletonInstanceProvider wrapping it.  Python's None is the empty guard
\* and the empty memo.
ConstInstanceProvider(v) ==
    [kind |-> "const", inst |-> v, f |-> "", memo |-> None, guard |-> None]
FactoryInstanceProvider(f) ==
    [kind |-> "factory", inst |-> None, f |-> f, memo |-> None, guard |-> None]
SingletonInstanceProvider(f) ==
    [kind |-> "singleton", inst |-> None, f |-> f, memo |-> None, guard |-> None]

\* A cell of an ObjectProxy: created without a backing value by
\* ObjectProxy.__new__, given one by ObjectProxy.__init__.
UninitializedProxy == [init |-> FALSE, v |-> None]
InitializedProxy(v) == [init |-> TRUE, v |-> v]

\* The object the callable of factory f returns when called with args: a
\* new object of its class holding the arguments, or None.
NewObject(cls, args) == [cls |-> cls, fields |-> args]

\* ------------------------------------------------------------- type checks

\* type(obj): the class of a heap object.
ClassOf(heap, v) == heap[v.id].cls

\* ClassType.type_check_object: every ObjectProxy passes; otherwise
\* isinstance(obj, self.type).
type_check_object(heap, t, v) ==
    IF v.k = "proxy" THEN TRUE
    ELSE v.k = "obj" /\ issubclass(ClassOf(heap, v), t.c)

\* hasattr(obj, "__iter__") of a heap object: tuples and generators; the
\* fields of a tuple are its items, those of a generator the items it has
\* not yielded yet: Pending until the generator is run, the objects made
\* while it runs.
Iterables == {"tuple", "generator"}

\* filter_instances_of_terminal_type: the value itself when it passes the
\* check, else the passing leaves of its items when it is iterable (a list,
\* a tuple, a generator; other objects and None have no __iter__).
RECURSIVE filter_instances_of_terminal_type(_, _, _)
RECURSIVE filter_items(_, _, _, _)
filter_items(heap, items, t, i) ==
    IF i > Len(items) THEN <<>>
    ELSE filter_instances_of_terminal_type(heap, items[i], t)
            \o filter_items(heap, items, t, i + 1)

filter_instances_of_terminal_type(heap, v, t) ==
    IF type_check_object(heap, t, v) THEN <<v>>
    ELSE IF v.k = "list" THEN filter_items(heap, v.items, t, 1)
    ELSE IF v.k = "obj" /\ ClassOf(heap, v) \in Iterables
    THEN filter_items(heap, heap[v.id].fields, t, 1)
    ELSE <<>>

\* filter_instances_of_terminal_type for every value, text strings among
\* them, the call nested n deep: a str has __iter__ as well, and iterating
\* over it gives its characters, each a str of one character that gives
\* itself again.  The outcome is the leaves yielded and how the iteration
\* ended: "ok", or "RecursionError" when the nesting reaches MaxDepth (the
\* leaves are then those yielded before the error).
Leaves(st, v) == [st |-> st, v |-> v]
RECURSIVE filter_instances_of_terminal_type_at(_, _, _, _)
RECURSIVE filter_items_at(_, _, _, _, _)
then_rest_at(first, heap, items, t, i, n) ==
    IF first.st # "ok" THEN first
    ELSE Leaves(filter_items_at(heap, items, t, i + 1, n).st,
                first.v \o filter_items_at(heap, items, t, i + 1, n).v)
filter_items_at(heap, items, t, i, n) ==
    IF i > Len(items) THEN Leaves("ok", <<>>)
    ELSE then_rest_at(filter_instances_of_terminal_type_at(heap, items[i], t, n),
                      heap, items, t, i, n)

filter_instances_of_terminal_type_at(heap, v, t, n) ==
    IF n >= MaxDepth THEN Leaves("RecursionError", <<>>)
    ELSE IF type_check_object(heap, t, v) THEN Leaves("ok", <<v>>)
    ELSE IF v.k = "list" THEN filter_items_at(heap, v.items, t, 1, n + 1)
    ELSE IF v.k = "obj" /\ ClassOf(heap, v) \in Iterables \cup {"str"}
    THEN filter_items_at(heap, heap[v.id].fields, t, 1, n + 1)
    ELSE Leaves("ok", <<>>)

\* What iterating over v does to the heap: a generator loses the items it
\* has yielded: all of them when the iteration runs to its end, those up to
\* the first one accepted for t when the caller stops at its first item.
RECURSIVE after_first(_, _, _, _)
after_first(heap, items, t, i) ==
    IF i > Len(items) THEN <<>>
    ELSE IF type_check_object(heap, t, items[i])
    THEN SubSeq(items, i + 1, Len(items))
    ELSE after_first(heap, items, t, i + 1)

is_generator(heap, v) == v.k = "obj" /\ ClassOf(heap, v) = "generator"

\* for item in obj, obj the generator number g: the body of the generator
\* function runs to its next yield when an item is asked for, which makes
\* the object of pending item i.
made(s, g, i) ==
    [s EXCEPT !.heap = Append([s.heap EXCEPT ![g].fields[i] = Obj(Len(s.heap) + 1)],
                              NewObject(s.heap[g].fields[i].t.c, <<>>))]
\* The generator is run from pending item i on: to its end, or, when the
\* caller stops at the first item accepted for t, as far as that item.
RECURSIVE run_generator(_, _, _, _, _)
run_on(s, g, t, i, first) ==
    IF first /\ type_check_object(s.heap, t, s.heap[g].fields[i]) THEN s
    ELSE run_generator(s, g, t, i + 1, first)
run_generator(s, g, t, i, first) ==
    IF i > Len(s.heap[g].fields) THEN s
    ELSE run_on(made(s, g, i), g, t, i, first)
ran(s, v, t, first) ==
    IF is_generator(s.heap, v) THEN run_generator(s, v.id, t, 1, first) ELSE s

drained(s, v) ==
    IF is_generator(s.heap, v) THEN [s EXCEPT !.heap[v.id].fields = <<>>] ELSE s
advanced(s, v, t) ==
    IF is_generator(s.heap, v)
    THEN [s EXCEPT !.heap[v.id].fields = after_first(s.heap, @, t, 1)]
    ELSE s


\* ------------------------------------------------------------- resolution

\* The mutable state a call works on: the provider objects, the index, the
\* heap of objects, the proxies, and the log of the call's events.
\* The outcome of a (nested) call: the state it leaves, how it ended
\* ("ok", "ResolutionError", or "RecursionError" when the nesting reaches
\* MaxDepth), and the value returned (for an iteration: the sequence of the
\* values yielded).
Outcome(s, st, v) == [s |-> s, st |-> st, v |-> v]
Return(s, v) == Outcome(s, "ok", v)
Raise(s, exc) == Outcome(s, exc, None)

\* Events of the log: the factory's callable of provider p was invoked at
\* nesting depth d and returned v; get_instance of provider p, called at
\* depth d (0: by the top-level query itself), ended st with value v; a
\* union tried its member number p, which ended st.
Invoked(p, d, v) == [e |-> "invoke", p |-> p, d |-> d, v |-> v, st |-> "ok"]
Got(p, d, st, v) == [e |-> "get", p |-> p, d |-> d, v |-> v, st |-> st]
Tried(i, d, st, v) == [e |-> "member", p |-> i, d |-> d, v |-> v, st |-> st]
\* ... and iterate_instances, called at depth d, yielded the items (those
\* accepted among what provider p had returned) to its caller.
Yielded(p, d, items) ==
    [e |-> "yield", p |-> p, d |-> d, v |-> ListV(items), st |-> "ok"]

\* ... and the SingletonInstanceProvider p, asked at depth d, assigned v to
\* its _instance.
Memoized(p, d, v) == [e |-> "memo", p |-> p, d |-> d, v |-> v, st |-> "ok"]

Logged(r, event) == [r EXCEPT !.s.log = Append(@, event)]
noted(s, event) == [s EXCEPT !.log = Append(@, event)]

\* (A(), B()), made when the heap holds n objects: the two items, then the
\* tuple of them.
NewIterable(cls, n) ==
    <<NewObject("A", <<>>), NewObject("B", <<>>),
      NewObject(cls, <<Obj(n + 1), Obj(n + 2)>>)>>

\* The two entries of the recursion, MetaType.resolve_single_instance and
\* MetaType.iterate_resolved_instances, are reached through Do, which is
\* defined after them.
RECURSIVE Do(_, _, _, _)

\* Container.resolve: python_type_to_meta, then resolve_single_instance with
\* a new InstanceResolver (which holds no state of its own).
Container_resolve(s, type, d) ==
    Do("resolve_single_instance", s, python_type_to_meta(type), d)

\* list(Container.iter_all_instances(type)) and Container.get_all_instances.
Container_get_all_instances(s, type, d) ==
    Do("iterate_resolved_instances", s, python_type_to_meta(type), d)

\* tuple(container.iter_all_instances(annotation)): the value of *args
as_tuple(r) == IF r.st = "ok" THEN [r EXCEPT !.v = ListV(r.v)] ELSE r

\* FactoryInstanceProvider._get_instance, its loop over self._annotations
\* from parameter i on: a **kwargs parameter and a parameter without
\* annotation are not in _annotations; *args takes every instance, any other
\* parameter one.
RECURSIVE resolve_parameters(_, _, _, _, _)
RECURSIVE after_parameter(_, _, _, _, _)
resolve_parameters(s, params, i, args, d) ==
    IF i > Len(params) THEN Return(s, args)
    ELSE IF params[i].kind = "var_keyword" \/ ~params[i].has_ann
    THEN resolve_parameters(s, params, i + 1, Append(args, Omitted), d)
    ELSE IF params[i].kind = "var_positional"
    THEN after_parameter(as_tuple(Container_get_all_instances(s, params[i].ann, d)),
                         params, i, args, d)
    ELSE after_parameter(Container_resolve(s, params[i].ann, d), params, i, args, d)

\* A loop that leaves out every parameter that cannot be resolved, with or
\* without a default.
after_parameter_always_swallows(r, params, i, args, d) ==
    IF r.st = "ok"
    THEN resolve_parameters(r.s, params, i + 1, Append(args, r.v), d)
    ELSE IF r.st = "ResolutionError"
    THEN resolve_parameters(r.s, params, i + 1, Append(args, Omitted), d)
    ELSE Raise(r.s, r.st)

\* ... and what the loop does with the outcome r of parameter i: the value
\* is passed on; a ResolutionError is swallowed when the parameter has a
\* default (it is left out of the call) and re-raised otherwise.
after_parameter(r, params, i, args, d) ==
    IF r.st = "ok"
    THEN resolve_parameters(r.s, params, i + 1, Append(args, r.v), d)
    ELSE IF r.st = "ResolutionError" /\ params[i].has_default
    THEN resolve_parameters(r.s, params, i + 1, Append(args, Omitted), d)
    ELSE Raise(r.s, r.st)

\* self._factory(*args, **kwargs) of provider p, a the outcome of resolving
\* its parameters: the callable runs only when none of them raised.
call_factory(a, p, d) ==
    IF a.st # "ok" THEN a
    ELSE IF factories(a.s.providers[p].f).makes = "None"
    THEN Logged(Return(a.s, None), Invoked(p, d, None))
    ELSE IF factories(a.s.providers[p].f).makes = "generator"
    THEN Logged(Return([a.s EXCEPT !.heap = Append(@, NewObject("generator",
                                   <<Pending("A"), Pending("B")>>))],
                       Obj(Len(a.s.heap) + 1)),
                Invoked(p, d, Obj(Len(a.s.heap) + 1)))
    ELSE IF factories(a.s.providers[p].f).makes \in Iterables
    THEN Logged(Return([a.s EXCEPT !.heap =
                           @ \o NewIterable(factories(a.s.providers[p].f).makes,
                                            Len(a.s.heap))],
                       Obj(Len(a.s.heap) + 3)),
                Invoked(p, d, Obj(Len(a.s.heap) + 3)))
    ELSE Logged(Return([a.s EXCEPT !.heap = Append(@,
                           NewObject(factories(a.s.providers[p].f).makes, a.v))],
                       Obj(Len(a.s.heap) + 1)),
                Invoked(p, d, Obj(Len(a.s.heap) + 1)))

\* FactoryInstanceProvider._get_instance: resolve the parameters, then call
\* the factory.
FactoryInstanceProvider__get_instance(s, p, d) ==
    call_factory(resolve_parameters(s, factories(s.providers[p].f).params,
                                    1, <<>>, d), p, d)

\* self._proxy_recursion_guard = ObjectProxy.__new__(ObjectProxy)
set_guard(s, p) ==
    [s EXCEPT !.proxies = Append(@, UninitializedProxy),
              !.providers[p].guard = Proxy(Len(s.proxies) + 1)]

\* A guard release that never initializes the proxy it handed out.
release_guard_keeps_proxy_empty(r, p, n) ==
    [r EXCEPT !.s.providers[p].guard = None]

\* After _get_instance ended with outcome r: on success the guard's proxy
\* (number n) is initialized with the instance; the finally block clears the
\* guard in either case.
release_guard(r, p, n) ==
    IF r.st = "ok"
    THEN [r EXCEPT !.s.proxies[n] = InitializedProxy(r.v),
                   !.s.providers[p].guard = None]
    ELSE [r EXCEPT !.s.providers[p].guard = None]

\* A get_instance that does not look at the guard before producing.
FactoryInstanceProvider_get_instance_unguarded(s, p, d) ==
    IF d >= MaxDepth THEN Raise(s, "RecursionError")
    ELSE release_guard(FactoryInstanceProvider__get_instance(set_guard(s, p), p, d + 1),
                       p, Len(s.proxies) + 1)

\* FactoryInstanceProvider.get_instance: a call made while the provider's
\* guard is set returns the guard's proxy; otherwise the guard is set to a
\* new uninitialized proxy, the instance is made, and the guard is released.
FactoryInstanceProvider_get_instance(s, p, d) ==
    IF s.providers[p].guard # None THEN Return(s, s.providers[p].guard)
    ELSE IF d >= MaxDepth THEN Raise(s, "RecursionError")
    ELSE release_guard(FactoryInstanceProvider__get_instance(set_guard(s, p), p, d + 1),
                       p, Len(s.proxies) + 1)

\* A singleton that forgets what it produced.
memoize_nothing(r, p, d) == r

\* self._instance = self._provider.get_instance(container): the assignment
\* happens when the call returned.
memoize(r, p, d) ==
    IF r.st = "ok"
    THEN Logged([r EXCEPT !.s.providers[p].memo = r.v], Memoized(p, d, r.v))
    ELSE r

\* SingletonInstanceProvider.get_instance
SingletonInstanceProvider_get_instance(s, p, d) ==
    IF s.providers[p].memo = None
    THEN memoize(FactoryInstanceProvider_get_instance(s, p, d), p, d)
    ELSE Return(s, s.providers[p].memo)

\* ConstInstanceProvider.get_instance
ConstInstanceProvider_get_instance(s, p, d) == Return(s, s.providers[p].inst)

\* the log entry of a get_instance that ended
got(r, p, d) == Logged(r, Got(p, d, r.st, r.v))

\* provider.get_instance(container), by the provider's class
get_instance(s, p, d) ==
    got(CASE s.providers[p].kind = "const" ->
                ConstInstanceProvider_get_instance(s, p, d)
          [] s.providers[p].kind = "factory" ->
                FactoryInstanceProvider_get_instance(s, p, d)
          [] s.providers[p].kind = "singleton" ->
                SingletonInstanceProvider_get_instance(s, p, d),
        p, d)

\* InstanceResolver.resolve_single_instance over the providers ps from
\* number i on: the first item that iterate_instances yields is returned and
\* the providers after the one that yields it are not asked; a provider that
\* raises ends the loop with its exception.
RECURSIVE first_instance(_, _, _, _, _)
RECURSIVE first_of(_, _, _, _, _)
RECURSIVE first_yield(_, _, _, _, _)
\* A lookup that answers None when no provider yields an accepted value.
first_instance_default_None(s, t, ps, i, d) ==
    IF i > Len(ps) THEN Return(s, None)
    ELSE first_of(get_instance(s, ps[i], d), t, ps, i, d)

first_instance(s, t, ps, i, d) ==
    IF i > Len(ps) THEN Raise(s, "ResolutionError")
    ELSE first_of(get_instance(s, ps[i], d), t, ps, i, d)

\* the product of provider ps[i] is iterated as far as its first accepted item
first_of(r, t, ps, i, d) ==
    IF r.st # "ok" THEN r
    ELSE first_yield([r EXCEPT !.s = ran(r.s, r.v, t, TRUE)], t, ps, i, d)

first_yield(r, t, ps, i, d) ==
    IF filter_instances_of_terminal_type(r.s.heap, r.v, t) # <<>>
    THEN Logged(Return(advanced(r.s, r.v, t),
                       filter_instances_of_terminal_type(r.s.heap, r.v, t)[1]),
                Yielded(ps[i], d,
                        <<filter_instances_of_terminal_type(r.s.heap, r.v, t)[1]>>))
    ELSE first_instance(noted(drained(r.s, r.v), Yielded(ps[i], d, <<>>)),
                        t, ps, i + 1, d)

InstanceResolver_resolve_single_instance(s, t, d) ==
    first_instance(looked_up(s, t), t, query(s.index, t), 1, d)

\* items first, then what the rest of an iteration yields
prepend(items, rest) ==
    IF rest.st = "ok" THEN Return(rest.s, items \o rest.v) ELSE rest

\* InstanceResolver.iterate_instances over the providers ps from number i
\* on, consumed to its end.
RECURSIVE all_instances(_, _, _, _, _)
RECURSIVE rest_of(_, _, _, _, _)
RECURSIVE rest_yield(_, _, _, _, _)
all_instances(s, t, ps, i, d) ==
    IF i > Len(ps) THEN Return(s, <<>>)
    ELSE rest_of(get_instance(s, ps[i], d), t, ps, i, d)

\* the product of provider ps[i] is iterated to its end
rest_of(r, t, ps, i, d) ==
    IF r.st # "ok" THEN r
    ELSE rest_yield([r EXCEPT !.s = ran(r.s, r.v, t, FALSE)], t, ps, i, d)

rest_yield(r, t, ps, i, d) ==
    prepend(filter_instances_of_terminal_type(r.s.heap, r.v, t),
                 all_instances(
                     noted(drained(r.s, r.v),
                           Yielded(ps[i], d,
                                   filter_instances_of_terminal_type(r.s.heap, r.v, t))),
                     t, ps, i + 1, d))

InstanceResolver_iterate_instances(s, t, d) ==
    all_instances(looked_up(s, t), t, query(s.index, t), 1, d)

\* One next() of the generator of InstanceResolver.iterate_instances(t) whose
\* reversed() iterator stands at position n of the bucket of t: providers
\* are asked from position n downwards until one of them gives an item,
\* where the generator is suspended; a provider that raises ends the
\* generator with its exception, and an exhausted bucket with StopIteration.
\* (No product of the programs that step a generator is itself iterable, so
\* a provider gives at most one item and nothing of it is left to resume.)
RECURSIVE next_instance(_, _, _, _)
RECURSIVE next_of(_, _, _, _)
next_instance(s, t, n, d) ==
    IF n = 0 THEN Outcome(s, "StopIteration", StartedGenerator(t, 0, <<>>))
    ELSE next_of(get_instance(s, bucket(s.index, ClassKey(t.c))[n], d), t, n, d)

next_of(r, t, n, d) ==
    IF r.st # "ok" THEN Outcome(r.s, r.st, StartedGenerator(t, 0, <<>>))
    ELSE IF filter_instances_of_terminal_type(r.s.heap, r.v, t) # <<>>
    THEN Logged(Return(r.s,
                       StartedGenerator(t, n - 1,
                           <<filter_instances_of_terminal_type(r.s.heap, r.v, t)[1]>>)),
                Yielded(bucket(r.s.index, ClassKey(t.c))[n], d,
                        <<filter_instances_of_terminal_type(r.s.heap, r.v, t)[1]>>))
    ELSE next_instance(noted(r.s, Yielded(bucket(r.s.index, ClassKey(t.c))[n], d, <<>>)),
                       t, n - 1, d)

\* UnionType.resolve_single_instance from member i on: a member's
\* ResolutionError is caught and the next member tried; the first member that
\* ends otherwise decides.
RECURSIVE UnionType_resolve_single_instance(_, _, _, _)
RECURSIVE next_member(_, _, _, _)
UnionType_resolve_single_instance(s, ts, i, d) ==
    IF i > Len(ts) THEN Raise(s, "ResolutionError")
    ELSE next_member(Do("resolve_single_instance", s, ts[i], d), ts, i, d)

\* A union that goes on to the later members after a member succeeded.
next_member_keeps_trying(r, ts, i, d) ==
    IF r.st = "ResolutionError" \/ i < Len(ts)
    THEN UnionType_resolve_single_instance(
             [r.s EXCEPT !.log = Append(@, Tried(i, d, r.st, None))], ts, i + 1, d)
    ELSE Logged(r, Tried(i, d, r.st, r.v))

next_member(r, ts, i, d) ==
    IF r.st = "ResolutionError"
    THEN UnionType_resolve_single_instance(
             [r.s EXCEPT !.log = Append(@, Tried(i, d, r.st, None))], ts, i + 1, d)
    ELSE Logged(r, Tried(i, d, r.st, r.v))

\* UnionType.iterate_resolved_instances from member i on
RECURSIVE UnionType_iterate_resolved_instances(_, _, _, _)
RECURSIVE rest_of_members(_, _, _, _)
UnionType_iterate_resolved_instances(s, ts, i, d) ==
    IF i > Len(ts) THEN Return(s, <<>>)
    ELSE rest_of_members(Do("iterate_resolved_instances", s, ts[i], d), ts, i, d)

\* A union that lists the matches of a later member before those of an
\* earlier one.
rest_of_members_later_first(r, ts, i, d) ==
    IF r.st # "ok" THEN r
    ELSE IF UnionType_iterate_resolved_instances(r.s, ts, i + 1, d).st # "ok"
    THEN UnionType_iterate_resolved_instances(r.s, ts, i + 1, d)
    ELSE Return(UnionType_iterate_resolved_instances(r.s, ts, i + 1, d).s,
                UnionType_iterate_resolved_instances(r.s, ts, i + 1, d).v \o r.v)

rest_of_members(r, ts, i, d) ==
    IF r.st # "ok" THEN r
    ELSE prepend(r.v, UnionType_iterate_resolved_instances(r.s, ts, i + 1, d))

\* list(...) of an iteration
as_list(r) == IF r.st = "ok" THEN Return(r.s, ListV(r.v)) ELSE r
\* an iteration that yields one value, the value of r
yield_one(r) == IF r.st = "ok" THEN Return(r.s, <<r.v>>) ELSE r

\* MetaType.iterate_resolved_instances, consumed to its end
iterate_resolved_instances(s, t, d) ==
    CASE t.k = "ClassType" -> InstanceResolver_iterate_instances(s, t, d)
      [] t.k = "NoneTerminalType" -> Return(s, <<None>>)
      [] t.k = "UnionType" -> UnionType_iterate_resolved_instances(s, t.ts, 1, d)
      [] t.k = "ListType" ->
            yield_one(as_list(Do("iterate_resolved_instances", s, t.ts[1], d)))
      [] t.k = "IterableType" -> Return(s, <<Generator(t.ts[1])>>)

\* A NoneTerminalType that cannot be resolved.
resolve_single_instance_None_raises(s, t, d) ==
    CASE t.k = "ClassType" -> InstanceResolver_resolve_single_instance(s, t, d)
      [] t.k = "NoneTerminalType" -> Raise(s, "ResolutionError")
      [] t.k = "UnionType" -> UnionType_resolve_single_instance(s, t.ts, 1, d)
      [] t.k = "ListType" ->
            as_list(Do("iterate_resolved_instances", s, t.ts[1], d))
      [] t.k = "IterableType" -> Return(s, Generator(t.ts[1]))

\* MetaType.resolve_single_instance, by the descriptor's class
resolve_single_instance(s, t, d) ==
    CASE t.k = "ClassType" -> InstanceResolver_resolve_single_instance(s, t, d)
      [] t.k = "NoneTerminalType" -> Return(s, None)
      [] t.k = "UnionType" -> UnionType_resolve_single_instance(s, t.ts, 1, d)
      [] t.k = "ListType" ->
            as_list(Do("iterate_resolved_instances", s, t.ts[1], d))
      [] t.k = "IterableType" -> Return(s, Generator(t.ts[1]))

\* The call of method m of descriptor t.
Do(m, s, t, d) ==
    IF m = "resolve_single_instance" THEN resolve_single_instance(s, t, d)
    ELSE iterate_resolved_instances(s, t, d)

\* ------------------------------------------- descriptors of resolution.py

\* The descriptor classes of resolution.py that container.py has no
\* counterpart of; ClassType, UnionType, ListType and IterableType have the
\* fields of their namesakes above.
NoneType == [k |-> "NoneType", c |-> "", ts |-> <<>>]
AnyType == [k |-> "AnyType", c |-> "", ts |-> <<>>]
TypeOfType(t) == [k |-> "TypeOfType", c |-> "", ts |-> <<t>>]
TupleType(ts) == [k |-> "TupleType", c |-> "", ts |-> ts]

\* A Python bool as the outcome of a call that may also raise.
Bool(b) == IF b THEN "True" ELSE "False"
Min(a, b) == IF a < b THEN a ELSE b

\* BaseType.contains(other) by the class of self; the outcome is "True",
\* "False" or the name of the exception raised.  any(...) stops at the first
\* member that is true (or raises), all(... zip(self.args, other.args)) at
\* the first pair that is false (or raises) and at the end of the shorter
\* of the two tuples.
RECURSIVE contains(_, _)
RECURSIVE any_contains(_, _, _)
RECURSIVE all_contains(_, _, _)
any_contains_from(r, ts, other, i) ==
    IF r = "False" THEN any_contains(ts, other, i + 1) ELSE r
any_contains(ts, other, i) ==
    IF i > Len(ts) THEN "False"
    ELSE any_contains_from(contains(ts[i], other), ts, other, i)
all_contains_from(r, as, bs, i) ==
    IF r = "True" THEN all_contains(as, bs, i + 1) ELSE r
all_contains(as, bs, i) ==
    IF i > Min(Len(as), Len(bs)) THEN "True"
    ELSE all_contains_from(contains(as[i], bs[i]), as, bs, i)

\* TupleType.contains
TupleType_contains(self, other) ==
    IF other.k = "TupleType" THEN all_contains(self.ts, other.ts, 1) ELSE "False"

\* UnionType.contains
UnionType_contains(self, other) ==
    IF other.k = "UnionType" THEN "NotImplementedError"
    ELSE any_contains(self.ts, other, 1)

contains(self, other) ==
    CASE self.k = "ClassType" ->
            Bool(other.k = "ClassType" /\ issubclass(other.c, self.c))
      [] self.k = "NoneType" -> Bool(other.k = "NoneType")
      [] self.k = "TypeOfType" ->
            IF other.k = "TypeOfType" THEN contains(self.ts[1], other.ts[1])
            ELSE "False"
      [] self.k = "UnionType" -> UnionType_contains(self, other)
      [] self.k = "ListType" ->
            IF other.k = "ListType" THEN contains(self.ts[1], other.ts[1])
            ELSE "False"
      [] self.k = "IterableType" ->
            IF other.k \in {"IterableType", "ListType"}
            THEN contains(self.ts[1], other.ts[1]) ELSE "False"
      [] self.k = "TupleType" -> TupleType_contains(self, other)
      [] self.k = "AnyType" -> "True"

\* BaseType.resolves(other) by the class of self.
RECURSIVE resolves(_, _)
RECURSIVE any_resolves(_, _, _)
RECURSIVE all_resolves(_, _, _)
any_resolves_from(r, ts, other, i) ==
    IF r = "False" THEN any_resolves(ts, other, i + 1) ELSE r
any_resolves(ts, other, i) ==
    IF i > Len(ts) THEN "False"
    ELSE any_resolves_from(resolves(ts[i], other), ts, other, i)
all_resolves_from(r, as, bs, i) ==
    IF r = "True" THEN all_resolves(as, bs, i + 1) ELSE r
all_resolves(as, bs, i) ==
    IF i > Min(Len(as), Len(bs)) THEN "True"
    ELSE all_resolves_from(resolves(as[i], bs[i]), as, bs, i)

\* (isinstance(other, TupleType) and all(...)) or any(...): the second
\* operand is evaluated when the first is false.
or_any_resolves(r, self, other) ==
    IF r = "False" THEN any_resolves(self.ts, other, 1) ELSE r

\* TupleType.resolves
TupleType_resolves(self, other) ==
    or_any_resolves(IF other.k = "TupleType"
                    THEN all_resolves(self.ts, other.ts, 1) ELSE "False",
                    self, other)

resolves(self, other) ==
    CASE self.k = "ClassType" ->
            Bool(other.k = "ClassType" /\ issubclass(other.c, self.c))
      [] self.k = "NoneType" -> Bool(other.k = "NoneType")
      [] self.k = "TypeOfType" ->
            IF other.k = "TypeOfType" THEN contains(self.ts[1], other.ts[1])
            ELSE "False"
      [] self.k = "UnionType" -> any_resolves(self.ts, other, 1)
      [] self.k \in {"ListType", "IterableType"} -> resolves(self.ts[1], other)
      [] self.k = "TupleType" -> TupleType_resolves(self, other)
      [] self.k = "AnyType" -> "True"

\* hash(d): the value hashed, as Python builds it, or TypeError.  A tuple is
\* hashed through its elements; a set is unhashable; a class that defines
\* __eq__ and no __hash__ (IterableType) is unhashable.
Hashed(v) == [st |-> "ok", v |-> v]
Unhashable == [st |-> "TypeError", v |-> <<>>]
RECURSIVE hash(_)
RECURSIVE hash_elements(_, _, _)
hash_elements_from(h, ts, i, done) ==
    IF h.st # "ok" THEN h ELSE hash_elements(ts, i + 1, Append(done, h.v))
hash_elements(ts, i, done) ==
    IF i > Len(ts) THEN Hashed(done)
    ELSE hash_elements_from(hash(ts[i]), ts, i, done)
tagged(tag, h) == IF h.st # "ok" THEN h ELSE Hashed(<<tag, h.v>>)

hash(d) ==
    CASE d.k = "ClassType" -> Hashed(<<"type", d.c>>)
      [] d.k = "NoneType" -> Hashed(<<"str", "NoneTerminalType">>)
      [] d.k = "TypeOfType" -> tagged("TypeOfType", hash(d.ts[1]))
      [] d.k = "UnionType" -> Unhashable
      [] d.k = "ListType" -> tagged("ListType", hash(d.ts[1]))
      [] d.k = "IterableType" -> Unhashable
      [] d.k = "TupleType" -> tagged("TupleType", hash_elements(d.ts, 1, <<>>))
      [] d.k = "AnyType" -> Hashed(<<"str", "AnyType">>)

\* d1 == d2, __eq__ by the class of d1; a union compares its types_set, a
\* tuple its args.
RECURSIVE eq(_, _)
eq(d1, d2) ==
    CASE d1.k = "ClassType" -> d2.k = "ClassType" /\ d1.c = d2.c
      [] d1.k \in {"NoneType", "AnyType"} -> d2.k = d1.k
      [] d1.k \in {"TypeOfType", "ListType", "IterableType"} ->
            d2.k = d1.k /\ eq(d1.ts[1], d2.ts[1])
      [] d1.k = "UnionType" ->
            /\ d2.k = "UnionType"
            /\ \A i \in 1..Len(d1.ts) : \E j \in 1..Len(d2.ts) : eq(d1.ts[i], d2.ts[j])
            /\ \A j \in 1..Len(d2.ts) : \E i \in 1..Len(d1.ts) : eq(d1.ts[i], d2.ts[j])
      [] d1.k = "TupleType" ->
            /\ d2.k = "TupleType" /\ Len(d1.ts) = Len(d2.ts)
            /\ \A i \in 1..Len(d1.ts) : eq(d1.ts[i], d2.ts[i])

\* The descriptors put to the methods: the classes P, A (a child of P) and
\* B, None and Any; tuples of up to MaxArity classes; unions of two of A, B
\* and None; Type[..], List[..] and Iterable[..] of P and of A; and a list,
\* a Type[..] and a tuple over the union of A and B.  Every one of them can
\* be constructed (the members of a union are hashable).
ClassDescriptors == {ClassType("P"), ClassType("A"), ClassType("B")}
TupleDescriptors ==
    {TupleType(ts) : ts \in UNION {[1..n -> ClassDescriptors] : n \in 0..MaxArity}}
UnionDescriptors ==
    {UnionType(<<m1, m2>>) : m1, m2 \in {ClassType("A"), ClassType("B"), NoneType}}
Descriptors ==
    ClassDescriptors \cup {NoneType, AnyType}
    \cup TupleDescriptors \cup UnionDescriptors
    \cup {TypeOfType(t) : t \in {ClassType("P"), ClassType("A")}}
    \cup {ListType(t) : t \in {ClassType("P"), ClassType("A")}}
    \cup {IterableType(t) : t \in {ClassType("P"), ClassType("A")}}
    \cup {ListType(UnionType(<<ClassType("A"), ClassType("B")>>)),
          TypeOfType(UnionType(<<ClassType("A"), ClassType("B")>>)),
          TupleType(<<UnionType(<<ClassType("A"), ClassType("B")>>),
                      ClassType("B")>>)}

\* ------------------------------------------------------------------ state

VARIABLES
    providers,        \* the InstanceProvider objects, in registration order
    providers_index,  \* CachedStorage.providers_index
    heap,             \* the objects of the program; heap[1] is the container
    proxies,          \* the ObjectProxy objects created so far
    last,             \* the last public call: what it was and how it ended
    ncalls,           \* resolutions run so far
    invocations,      \* per provider: how often its factory's callable ran
    delivered,        \* per provider: the values it gave to top-level queries
    asked,            \* the last call of a method of a descriptor, and its outcome
    stream            \* the generator the caller keeps, g = ..., and steps

vars == <<providers, providers_index, heap, proxies, last, ncalls,
          invocations, delivered, asked, stream>>

\* The queries the caller makes.
Queries ==
    {PyClass("A"), PyClass("B"), PyClass("P"), PyClass("Container"),
     PyOptional(PyClass("A")),
     PyUnion(<<PyClass("A"), PyClass("B")>>),
     PyUnion(<<PyClass("A"), PyClass("P")>>),
     PyList(PyClass("A")), PyList(PyClass("P")),
     PyIterable(PyClass("A")), PyIterable(PyClass("P")),
     PyTuple(<<PyClass("A"), PyClass("B")>>)}

Call(op, q, st, v, log) == [op |-> op, q |-> q, st |-> st, v |-> v, log |-> log]

\* A call self.m(other) of a descriptor (other is self for hash) and its
\* outcome; NotAsked before any such call.
MethodCall(m, self, other, out) == [m |-> m, self |-> self, other |-> other, out |-> out]
NotAsked == MethodCall("", NoneType, NoneType, "")

\* The generator g the caller keeps, with the query q of the call that
\* returned it; NoStream while the caller keeps none.
Kept(q, g) == [q |-> q, g |-> g]
NoStream == Kept(PyNone, None)

\* A constructor that does not register the container with itself.
Init_without_self_registration ==
    /\ heap = <<NewObject("Container", <<>>)>>
    /\ providers = <<ConstInstanceProvider(Obj(1))>>
    /\ providers_index = [x \in {} |-> <<>>]
    /\ proxies = <<>>
    /\ last = Call("init", PyNone, "ok", None, <<>>)
    /\ ncalls = 0
    /\ invocations = <<0>>
    /\ delivered = <<{}>>
    /\ asked = NotAsked
    /\ stream = NoStream

\* Container.__init__: an empty storage, then register_instance(self).
Init ==
    /\ heap = <<NewObject("Container", <<>>)>>
    /\ providers = <<ConstInstanceProvider(Obj(1))>>
    /\ providers_index = add([x \in {} |-> <<>>], 1, ClassType("Container"))
    /\ proxies = <<>>
    /\ last = Call("init", PyNone, "ok", None, <<>>)
    /\ ncalls = 0
    /\ invocations = <<0>>
    /\ delivered = <<{}>>
    /\ asked = NotAsked
    /\ stream = NoStream

\* The state a call starts from, and the events it logged.
Start == [providers |-> providers, index |-> providers_index, heap |-> heap,
          proxies |-> proxies, log |-> <<>>]

InvocationsIn(log, p) ==
    Cardinality({i \in 1..Len(log) : log[i].e = "invoke" /\ log[i].p = p})
DeliveredIn(log, p) ==
    {log[i].v : i \in {j \in 1..Len(log) :
                         /\ log[j].e = "get" /\ log[j].st = "ok"
                         /\ log[j].p = p /\ log[j].d = 0}}

\* What every call that runs providers does to the state: r is its outcome.
Ended(op, q, r) ==
    /\ providers' = r.s.providers
    /\ providers_index' = r.s.index
    /\ heap' = r.s.heap
    /\ proxies' = r.s.proxies
    /\ last' = Call(op, q, r.st, r.v, r.s.log)
    /\ ncalls' = ncalls + 1
    /\ invocations' = [p \in 1..Len(providers) |->
                          invocations[p] + InvocationsIn(r.s.log, p)]
    /\ delivered' = [p \in 1..Len(providers) |->
                        delivered[p] \cup DeliveredIn(r.s.log, p)]
    /\ UNCHANGED asked

\* What every resolution does to the state; the generator the caller keeps
\* is not touched.
Resolved(op, q, r) == Ended(op, q, r) /\ UNCHANGED stream

\* What a registration does to the state: the provider is stored.
Registered(op, arg, provider, type) ==
    /\ providers' = Append(providers, provider)
    /\ providers_index' = add(providers_index, Len(providers) + 1, type)
    /\ invocations' = Append(invocations, 0)
    /\ delivered' = Append(delivered, {})
    /\ last' = Call(op, arg, "ok", None, <<>>)
    /\ UNCHANGED <<proxies, ncalls, asked, stream>>

\* Container.register_instance(instance) with a new instance of class c;
\* ConstInstanceProvider.get_type is ClassType(type(instance)).
register_instance(c) ==
    /\ Len(providers) <= MaxProviders
    /\ heap' = IF c \in Iterables THEN heap \o NewIterable(c, Len(heap))
               ELSE Append(heap, NewObject(c, <<>>))
    /\ Registered("register_instance", PyNone,
                  ConstInstanceProvider(Obj(Len(heap'))), ClassType(c))

\* A constructor that never looks at the return annotation.
build_raises_TypeError_for_parameters_only(f) ==
    \E i \in 1..Len(factories(f).params) :
        LET pa == factories(f).params[i]
        IN pa.kind # "var_keyword" /\ ~pa.has_ann /\ ~pa.has_default

\* A constructor that exempts *args from the annotation-or-default check.
build_raises_TypeError_variadic_exempt(f) ==
    \/ \E i \in 1..Len(factories(f).params) :
          LET pa == factories(f).params[i]
          IN pa.kind = "normal" /\ ~pa.has_ann /\ ~pa.has_default
    \/ ~factories(f).has_ret

\* FactoryInstanceProvider.__init__: _build_annotations raises TypeError for
\* a parameter, other than **kwargs, with neither annotation nor default;
\* get_return_type raises TypeError when the return annotation is missing.
build_raises_TypeError(f) ==
    \/ \E i \in 1..Len(factories(f).params) :
          LET pa == factories(f).params[i]
          IN pa.kind # "var_keyword" /\ ~pa.has_ann /\ ~pa.has_default
    \/ ~factories(f).has_ret

\* A registration that raised: nothing is stored.
Rejected(op, arg) ==
    /\ last' = Call(op, arg, "TypeError", None, <<>>)
    /\ UNCHANGED <<providers, providers_index, heap, proxies, ncalls,
                   invocations, delivered, asked, stream>>

\* Container.register_factory(factory); register_class(cls) is the same call.
register_factory(f) ==
    /\ Len(providers) <= MaxProviders
    /\ IF build_raises_TypeError(f) THEN Rejected("register_factory", PyCallable(f))
       ELSE /\ Registered("register_factory", PyCallable(f),
                          FactoryInstanceProvider(f),
                          python_type_to_meta(factories(f).ret))
            /\ UNCHANGED heap

\* Container.register_singleton_factory(factory); register_singleton_class
\* is the same call.
register_singleton_factory(f) ==
    /\ Len(providers) <= MaxProviders
    /\ IF build_raises_TypeError(f) THEN Rejected("register_singleton_factory", PyCallable(f))
       ELSE /\ Registered("register_singleton_factory", PyCallable(f),
                          SingletonInstanceProvider(f),
                          python_type_to_meta(factories(f).ret))
            /\ UNCHANGED heap

\* Container.resolve(type_)
resolve(q) ==
    /\ ncalls < MaxCalls
    /\ Resolved("resolve", q, Container_resolve(Start, q, 0))

\* Container.get_all_instances(type_)
get_all_instances(q) ==
    /\ ncalls < MaxCalls
    /\ Resolved("get_all_instances", q,
                as_list(Container_get_all_instances(Start, q, 0)))

\* A call that lists the instances before it returns.
iter_all_instances_eager(q) ==
    /\ ncalls < MaxCalls
    /\ Resolved("iter_all_instances", q,
                as_list(Container_get_all_instances(Start, q, 0)))

\* Container.iter_all_instances(type_): the generator is returned before any
\* of it has run.
iter_all_instances(q) ==
    /\ ncalls < MaxCalls
    /\ last' = Call("iter_all_instances", q, "ok",
                    Generator(python_type_to_meta(q)), <<>>)
    /\ UNCHANGED <<providers, providers_index, heap, proxies, ncalls,
                   invocations, delivered, asked, stream>>

\* The caller consumes the generator the last call returned, list(result).
consume ==
    /\ ncalls < MaxCalls
    /\ last.st = "ok" /\ last.v.k = "generator" /\ last.v.id = 0
    /\ Resolved("consume", last.q,
                as_list(Do("iterate_resolved_instances", Start, last.v.t, 0)))

Next ==
    \/ \E c \in InstanceClasses : register_instance(c)
    \/ \E f \in FactoryNames : register_factory(f)
    \/ \E f \in FactoryNames : register_singleton_factory(f)
    \/ \E q \in Queries : resolve(q)
    \/ \E q \in Queries : get_all_instances(q)
    \/ \E q \in Queries : iter_all_instances(q)
    \/ consume

Spec == Init /\ [][Next]_vars

\* The calls of a program whose factories have the signatures of
\* SignatureFactories: it registers them, registers instances of B (what
\* *args: B collects) and asks for A.
NextSignatures ==
    \/ register_instance("B")
    \/ \E f \in SignatureFactories : register_factory(f)
    \/ \E f \in SignatureFactories : register_singleton_factory(f)
    \/ resolve(PyClass("A"))
    \/ get_all_instances(PyClass("A"))

SpecSignatures == Init /\ [][NextSignatures]_vars

\* The calls of a program that lists instances: it registers instances of
\* A, B and C, the factory of A and the generator factory, and asks for
\* classes, unions of classes and lists of them.
CollectionQueries ==
    {PyClass("A"), PyClass("P"),
     PyUnion(<<PyClass("A"), PyClass("B")>>),
     PyUnion(<<PyClass("B"), PyClass("A")>>),
     PyUnion(<<PyClass("A"), PyClass("P")>>),
     PyList(PyClass("P")),
     PyList(PyUnion(<<PyClass("A"), PyClass("B")>>))}

NextCollections ==
    \/ \E c \in {"A", "B", "C"} : register_instance(c)
    \/ \E f \in {"A", "GenAB"} : register_factory(f)
    \/ \E f \in {"A", "GenAB"} : register_singleton_factory(f)
    \/ \E q \in CollectionQueries : resolve(q)
    \/ \E q \in CollectionQueries : get_all_instances(q)

SpecCollections == Init /\ [][NextCollections]_vars

\* The position at which the generator g over the bucket of class c goes
\* on: the end of the bucket as it is now when g was not started (reversed()
\* is called by the first next()), the position it was suspended at after.
position(g, index) ==
    IF g.id = 0 THEN Len(bucket(index, ClassKey(g.t.c))) ELSE g.id - 1

\* a generator whose one yield gives the value of r; an exception ends it
yielded_once(r, t) ==
    IF r.st = "ok" THEN Return(r.s, StartedGenerator(t, 0, <<r.v>>))
    ELSE Outcome(r.s, r.st, StartedGenerator(t, 0, <<>>))

\* One next() of the generator g of iterate_resolved_instances, by the
\* class of its descriptor: a ClassType gives the generator of
\* iterate_instances; a ListType yields the list of all instances, an
\* IterableType the generator of its member, a NoneTerminalType None, and
\* then they end.  A generator that has ended raises StopIteration.
next_of_stream(s, g) ==
    IF g.id = 1 THEN Outcome(s, "StopIteration", StartedGenerator(g.t, 0, <<>>))
    ELSE CASE g.t.k = "ClassType" ->
                 next_instance(IF g.id = 0 THEN looked_up(s, g.t) ELSE s,
                               g.t, position(g, s.index), 0)
           [] g.t.k = "ListType" ->
                 yielded_once(as_list(Do("iterate_resolved_instances", s, g.t.ts[1], 0)),
                              g.t)
           [] g.t.k = "IterableType" ->
                 Return(s, StartedGenerator(g.t, 0, <<Generator(g.t.ts[1])>>))
           [] g.t.k = "NoneTerminalType" ->
                 Return(s, StartedGenerator(g.t, 0, <<None>>))

\* what next() returns: the item the generator yielded
item_of(r) == [r EXCEPT !.v = IF r.v.items # <<>> THEN r.v.items[1] ELSE None]

\* The caller keeps the generator the last call returned, g = ...
keep ==
    /\ last.st = "ok" /\ last.v.k = "generator"
    /\ stream # Kept(last.q, last.v)
    /\ stream' = Kept(last.q, last.v)
    /\ UNCHANGED <<providers, providers_index, heap, proxies, last, ncalls,
                   invocations, delivered, asked>>

\* The caller takes one element, next(g), of the generator it keeps (the
\* programs keep no generator over a union).
next_item ==
    /\ ncalls < MaxCalls
    /\ stream # NoStream /\ stream.g.t.k # "UnionType"
    /\ Ended("next", stream.q, item_of(next_of_stream(Start, stream.g)))
    /\ stream' = Kept(stream.q, next_of_stream(Start, stream.g).v)

\* The calls of a program that takes the instances of a class one by one:
\* it registers instances of A and C and factories of A, one of them with a
\* parameter B that nothing provides, asks for streams and lists of A and
\* of their base P, keeps a stream and steps it, between its other calls.
StreamQueries ==
    {PyClass("A"), PyClass("P"), PyIterable(PyClass("A")), PyIterable(PyClass("P")),
     PyList(PyClass("P"))}

NextStreams ==
    \/ \E c \in {"A", "C"} : register_instance(c)
    \/ \E f \in {"A", "AofB"} : register_factory(f)
    \/ \E f \in {"A", "AofB"} : register_singleton_factory(f)
    \/ \E q \in StreamQueries : resolve(q)
    \/ \E q \in StreamQueries : get_all_instances(q)
    \/ \E q \in StreamQueries : iter_all_instances(q)
    \/ keep
    \/ next_item

SpecStreams == Init /\ [][NextStreams]_vars

\* The calls of the methods of the descriptors of resolution.py; they are
\* pure: nothing of a container changes.
Answered(m, self, other, out) ==
    /\ asked' = MethodCall(m, self, other, out)
    /\ UNCHANGED <<providers, providers_index, heap, proxies, last, ncalls,
                   invocations, delivered, stream>>

\* self.contains(other); one call is made in a run
ask_contains(self, other) ==
    /\ asked = NotAsked
    /\ Answered("contains", self, other, contains(self, other))

\* self.resolves(other)
ask_resolves(self, other) ==
    /\ asked = NotAsked
    /\ Answered("resolves", self, other, resolves(self, other))

\* d1 == d2
ask_eq(d1, d2) ==
    /\ asked = NotAsked
    /\ Answered("eq", d1, d2, Bool(eq(d1, d2)))

\* hash(d)
ask_hash(d) ==
    /\ asked = NotAsked
    /\ Answered("hash", d, d, hash(d))

NextDescriptors ==
    \/ \E self, other \in Descriptors : ask_contains(self, other)
    \/ \E self, other \in Descriptors : ask_resolves(self, other)
    \/ \E d1, d2 \in Descriptors : ask_eq(d1, d2)
    \/ \E d \in Descriptors : ask_hash(d)

SpecDescriptors == Init /\ [][NextDescriptors]_vars

\* The values put to filter_instances_of_terminal_type, in a heap of their
\* own: an A, a B and a C (a P as the A is); the tuples (a, b) and
\* ((a, b), c); the strings "", "x", "xy" and "y" (the attributes of a str
\* are its characters, a str of one character has itself); the tuple
\* (a, "x"); None; and the lists of one and of two of these.
FlattenHeap ==
    <<NewObject("A", <<>>), NewObject("B", <<>>), NewObject("C", <<>>),
      NewObject("tuple", <<Obj(1), Obj(2)>>), NewObject("tuple", <<Obj(4), Obj(3)>>),
      NewObject("str", <<>>), NewObject("str", <<Obj(7)>>),
      NewObject("str", <<Obj(7), Obj(9)>>), NewObject("str", <<Obj(9)>>),
      NewObject("tuple", <<Obj(1), Obj(7)>>)>>
FlattenLeaves == {Obj(n) : n \in 1..Len(FlattenHeap)} \cup {None}
FlattenValues ==
    FlattenLeaves \cup {ListV(<<x>>) : x \in FlattenLeaves}
    \cup {ListV(<<x, y>>) : x, y \in FlattenLeaves}
FlattenTypes == {ClassType("A"), ClassType("B"), ClassType("P"), ClassType("str")}

\* list(filter_instances_of_terminal_type(obj, type_)); one call is made in
\* a run
ask_filter(obj, type) ==
    /\ asked = NotAsked
    /\ Answered("filter_instances_of_terminal_type", obj, type,
                filter_instances_of_terminal_type_at(FlattenHeap, obj, type, 0))

NextFlatten == \E obj \in FlattenValues, type \in FlattenTypes : ask_filter(obj, type)

SpecFlatten == Init /\ [][NextFlatten]_vars

\* ------------------------------------------------------------- properties

\* What the log of the last call says about the providers the top-level
\* query itself asked (depth 0).
TopGets == {i \in 1..Len(last.log) : last.log[i].e = "get" /\ last.log[i].d = 0}
Asked(p) == \E i \in TopGets : last.log[i].p = p
Answer(p) == last.log[CHOOSE i \in TopGets : last.log[i].p = p]
\* the items the top-level query was given from what provider p returned
TopYields == {i \in 1..Len(last.log) : last.log[i].e = "yield" /\ last.log[i].d = 0}
YieldOfAsked(p) == last.log[CHOOSE i \in TopYields : last.log[i].p = p].v.items
\* the provider answered and the query was given an item of it, which the
\* descriptor T accepts / answered and the query was given nothing of it
Accepted(p, T) ==
    /\ Asked(p) /\ Answer(p).st = "ok"
    /\ YieldOfAsked(p) # <<>>
    /\ type_check_object(heap, T, YieldOfAsked(p)[1])
YieldsNothing(p, T) ==
    /\ Asked(p) /\ Answer(p).st = "ok"
    /\ YieldOfAsked(p) = <<>>
    /\ ~type_check_object(heap, T, Answer(p).v)
AcceptedValue(p, T) == YieldOfAsked(p)[1]

\* The last call was resolve(c) for a class c; the providers indexed for c.
ResolvedClass == last.op = "resolve" /\ last.q.k = "class"
Indexed(c) == SeqToSet(bucket(providers_index, ClassKey(c)))

\* Provider p is known to yield a value accepted for T: it holds a constant
\* instance of the class, or it was asked and answered with one.
Yields(p, T) ==
    \/ providers[p].kind = "const" /\ type_check_object(heap, T, providers[p].inst)
    \/ Accepted(p, T)
YieldOf(p, T) ==
    IF providers[p].kind = "const" THEN providers[p].inst ELSE AcceptedValue(p, T)

\* C1: resolve(T) returns the value of the most recently
\* registered producer indexed for T that yields a value accepted for T:
\* whenever some producer indexed for T yields an accepted value, resolve(T)
\* returns, and returns the value of the newest such producer.
C1_MostRecentAccepted ==
    ResolvedClass =>
        \A p \in Indexed(last.q.c) :
            Yields(p, ClassType(last.q.c)) =>
                /\ last.st = "ok"
                /\ \E sp \in Indexed(last.q.c) :
                      /\ sp >= p
                      /\ Yields(sp, ClassType(last.q.c))
                      /\ last.v = YieldOf(sp, ClassType(last.q.c))
                      /\ \A n \in Indexed(last.q.c) :
                            n > sp => ~Yields(n, ClassType(last.q.c))

\* ---- C2

\* c has one producer, the plain factory f
OnlyProducer(c, f) ==
    /\ Len(bucket(providers_index, ClassKey(c))) = 1
    /\ providers[bucket(providers_index, ClassKey(c))[1]].kind = "factory"
    /\ providers[bucket(providers_index, ClassKey(c))[1]].f = f
\* attribute number i of the object v refers to
field(v, i) == heap[v.id].fields[i]

\* the cycle of the two classes: the other class of the pair
Other(c) == IF c = "A" THEN "B" ELSE "A"

\* factory A(dep: B) and factory B(dep: A) are the only producers of A and B
CycleRegistered == OnlyProducer("A", "AofB") /\ OnlyProducer("B", "BofA")

\* v is an object of class c whose dep is an object of the other class whose
\* dep is the proxy backed by exactly v
ClosesCycle(v, c) ==
    /\ v.k = "obj" /\ ClassOf(heap, v) = c
    /\ field(v, 1).k = "obj" /\ ClassOf(heap, field(v, 1)) = Other(c)
    /\ field(field(v, 1), 1).k = "proxy"
    /\ proxies[field(field(v, 1), 1).id] = InitializedProxy(v)

\* C2: with factory A(dep: B) and factory B(dep: A) the only producers of A
\* and B, resolve(A) returns an A whose dep is a B whose dep is the proxy
\* backed by exactly the A that resolve returned, and symmetrically
\* resolve(B) returns a B whose dep is an A whose dep is the proxy backed by
\* exactly the B that resolve returned.
C2_CycleResolution ==
    \A c \in {"A", "B"} :
        (last.op = "resolve" /\ last.q = PyClass(c) /\ CycleRegistered) =>
            (last.st = "ok" /\ ClosesCycle(last.v, c))

\* C2's case, in both directions: the cycle was registered, an earlier
\* top-level query was answered by the factory of A with an A that closes
\* the cycle, and resolve(B) then returned a B that closes it.
C2_Witness ==
    /\ CycleRegistered /\ ncalls = 2
    /\ last.op = "resolve" /\ last.q = PyClass("B") /\ last.st = "ok"
    /\ ClosesCycle(last.v, "B")
    /\ \E p \in 1..Len(providers) :
          /\ providers[p].f = "AofB"
          /\ \E v \in delivered[p] : ClosesCycle(v, "A")

\* ---- C3

\* the providers backed by a callable
FunctionBacked == {p \in 1..Len(providers) : providers[p].kind # "const"}

\* C3: no call runs into unbounded recursion: no call ends with
\* RecursionError, and the nesting of productions never gets deeper than the
\* number of function-backed producers (none is entered twice at a time).
C3_CycleTermination ==
    /\ last.st # "RecursionError"
    /\ \A i \in 1..Len(last.log) : last.log[i].d <= Cardinality(FunctionBacked)

\* C3's case: a call ended after a producer that was re-entered while it
\* was producing answered with a proxy.
C3_Witness ==
    /\ last.op \in {"resolve", "get_all_instances"} /\ last.st = "ok"
    /\ \E i \in 1..Len(last.log) :
          /\ last.log[i].e = "get" /\ last.log[i].d > 0
          /\ last.log[i].v.k = "proxy"
          /\ providers[last.log[i].p].kind = "factory"

\* ---- C4

\* the object a value stands for: a proxy stands for what backs it
Deref(v) == IF v.k = "proxy" /\ proxies[v.id].init THEN proxies[v.id].v ELSE v

\* C4 as claimed: within one top-level call every factory's callable is
\* invoked at most once, and every sub-query that reaches the same producer
\* gets the same value.
C4_PerResolutionCaching ==
    \A p \in 1..Len(providers) :
        /\ InvocationsIn(last.log, p) <= 1
        /\ \A i, j \in 1..Len(last.log) :
              (/\ last.log[i].e = "get" /\ last.log[i].p = p /\ last.log[i].st = "ok"
               /\ last.log[j].e = "get" /\ last.log[j].p = p /\ last.log[j].st = "ok")
                  => Deref(last.log[i].v) = Deref(last.log[j].v)

\* ---- C5

\* C5: a singleton producer delivers one and the same object to every
\* top-level query, whatever the operation and the type queried.
C5_SingletonIdentity ==
    \A p \in 1..Len(providers) :
        providers[p].kind = "singleton" => Cardinality(delivered[p]) <= 1

\* C5's case: a singleton that produced its instance in an earlier call
\* delivered it again in the last call without producing.
C5_Witness ==
    \E p \in 1..Len(providers) :
        /\ providers[p].kind = "singleton"
        /\ ncalls = 2 /\ invocations[p] = 1
        /\ InvocationsIn(last.log, p) = 0
        /\ DeliveredIn(last.log, p) # {}
        /\ last.op \in {"get_all_instances", "consume"}

\* ---- C6

\* C6 as claimed: the callable of a singleton producer is invoked at most
\* once over the container's lifetime, whatever it returns.
C6_SingletonInvokedOnce ==
    \A p \in 1..Len(providers) :
        providers[p].kind = "singleton" => invocations[p] <= 1

\* ---- C7

\* C7 as claimed: a singleton's production attempt that ends in
\* ResolutionError leaves its memo empty, so the memo holds a value only once
\* the callable has returned one, and no resolve returns a proxy that was
\* never initialized.
C7_FailureNotMemoized ==
    /\ \A p \in 1..Len(providers) :
          (providers[p].kind = "singleton" /\ providers[p].memo # None)
              => invocations[p] >= 1
    /\ (last.op = "resolve" /\ last.st = "ok" /\ last.v.k = "proxy")
          => proxies[last.v.id].init

\* ---- C8

\* the members the top-level union of the last call tried, in order
IsTopMember(e) == e.e = "member" /\ e.d = 0
TopMembers == SelectSeq(last.log, IsTopMember)
\* the value v is one the member type m of a union stands for
MemberAccepts(m, v) ==
    CASE m.k = "class" -> type_check_object(heap, ClassType(m.c), v)
      [] m.k = "NoneType" -> v = None
      [] OTHER -> TRUE

\* C8: resolve(Union[T1, ..., Tn]) tries the members from the left: the
\* members tried are 1..k in this order, all before the k-th failed with
\* ResolutionError, the result is the k-th member's and nothing is consulted
\* after it; the call raises only when all n members failed.
C8_UnionLeftToRight ==
    (last.op = "resolve" /\ last.q.k = "Union") =>
        /\ Len(TopMembers) \in 1..Len(last.q.args)
        /\ \A i \in 1..Len(TopMembers) : TopMembers[i].p = i
        /\ \A i \in 1..(Len(TopMembers) - 1) : TopMembers[i].st = "ResolutionError"
        /\ TopMembers[Len(TopMembers)].st = last.st
        /\ last.st = "ok" =>
              /\ TopMembers[Len(TopMembers)].v = last.v
              /\ MemberAccepts(last.q.args[Len(TopMembers)], last.v)
              /\ last.log[Len(last.log)] = TopMembers[Len(TopMembers)]
        /\ last.st # "ok" =>
              /\ last.st = "ResolutionError"
              /\ Len(TopMembers) = Len(last.q.args)

\* C8's case: resolve(Union[A, B]) with no producer of A returned a B, the
\* second member's value, after the first member failed.
C8_Witness ==
    /\ last.op = "resolve" /\ last.q = PyUnion(<<PyClass("A"), PyClass("B")>>)
    /\ last.st = "ok" /\ last.v.k = "obj" /\ ClassOf(heap, last.v) = "B"
    /\ Len(TopMembers) = 2 /\ TopMembers[1].st = "ResolutionError"

\* ---- C9

C10_ClassNeverNone ==
    ResolvedClass =>
        /\ last.st = "ok" =>
              /\ last.v # None
              /\ type_check_object(heap, ClassType(last.q.c), last.v)
        /\ (\A p \in Indexed(last.q.c) : YieldsNothing(p, ClassType(last.q.c)))
              => last.st = "ResolutionError"

\* C10's case: the one producer indexed for A, a factory declared to return
\* Optional[A], returned None, and resolve(A) raised ResolutionError.
C10_Witness ==
    /\ ResolvedClass /\ last.q.c = "A" /\ last.st = "ResolutionError"
    /\ \E p \in Indexed("A") :
          /\ Indexed("A") = {p}
          /\ YieldsNothing(p, ClassType("A"))
          /\ Answer(p).v = None

\* ---- C11

\* the last call collected every instance: get_all_instances, or
\* iter_all_instances consumed to its end
CollectedAll == last.op \in {"get_all_instances", "consume"}

\* C11: get_all_instances(query) and the full consumption of
\* iter_all_instances(query) never fail, whatever the registry holds: they
\* end with a list, and with the empty list when no producer is indexed for
\* the class queried.
C11_GetAllNeverFails ==
    CollectedAll =>
        /\ last.st = "ok"
        /\ last.v.k = "list"
        /\ (last.q.k = "class" /\ Indexed(last.q.c) = {}) => last.v.items = <<>>

\* ---- C12

\* The class whose instances the last call listed: get_all_instances(c),
\* resolve(List[c]), or the consumed result of resolve(Iterable[c]) or of
\* iter_all_instances(c); "" when the last call was none of these.
ListedClass ==
    CASE last.op = "get_all_instances" /\ last.q.k = "class" -> last.q.c
      [] last.op = "resolve" /\ last.q.k = "List" /\ last.q.args[1].k = "class" ->
            last.q.args[1].c
      [] last.op = "consume" /\ last.q.k = "class" -> last.q.c
      [] /\ last.op = "consume" /\ last.q.k = "Iterable"
         /\ last.q.args[1].k = "class"
         /\ last.v # ListV(<<Generator(ClassType(last.q.args[1].c))>>) ->
            last.q.args[1].c
      [] OTHER -> ""

\* the registered instances of c and of its subclasses, from provider p
\* down to the first provider: most recently registered first
RECURSIVE InstancesNewestFirst(_, _)
InstancesNewestFirst(c, p) ==
    IF p = 0 THEN <<>>
    ELSE IF /\ providers[p].kind = "const"
            /\ issubclass(ClassOf(heap, providers[p].inst), c)
    THEN <<providers[p].inst>> \o InstancesNewestFirst(c, p - 1)
    ELSE InstancesNewestFirst(c, p - 1)

\* C12: when the producers indexed for a class c are registered instances,
\* every listing of c returns all registered instances of c and of its
\* subclasses, most recently registered first (so a listing of a child
\* class returns that class's instances only), and the empty list when no
\* producer is related to c; it raises nothing.
C12_CovariantCollection ==
    (/\ ListedClass # ""
     /\ \A p \in Indexed(ListedClass) : providers[p].kind = "const") =>
        /\ last.st = "ok"
        /\ last.v = ListV(InstancesNewestFirst(ListedClass, Len(providers)))

\* C12's case: an A and a C, both children of P, were registered and
\* resolve(List[P]) returned the two, the later one first.
C12_Witness ==
    /\ last.op = "resolve" /\ last.q = PyList(PyClass("P"))
    /\ last.st = "ok" /\ Len(last.v.items) = 2
    /\ ClassOf(heap, last.v.items[1]) # ClassOf(heap, last.v.items[2])
    /\ last.v.items[1].id > last.v.items[2].id
    /\ \A p \in Indexed("P") : providers[p].kind = "const"

\* ---- C13

\* v is an instance of c or of a subclass of c; a proxy counts by the value
\* that backs it
InstanceOf(v, c) ==
    /\ Deref(v).k = "obj"
    /\ issubclass(ClassOf(heap, Deref(v)), c)

\* the invocations of the last call that made an object holding the
\* arguments of the call
ObjectsMade ==
    {i \in 1..Len(last.log) :
        /\ last.log[i].e = "invoke" /\ last.log[i].v.k = "obj"
        /\ ClassOf(heap, last.log[i].v) \notin Iterables}
ParamsOf(i) == factories(providers[last.log[i].p].f).params

\* C13: every value resolve / get_all_instances returns for a class query
\* c, and every argument passed for a factory parameter annotated with a
\* class c, is an instance of c or of a subclass of c.
C13_ResultTypeSoundness ==
    /\ (ResolvedClass /\ last.st = "ok") => InstanceOf(last.v, last.q.c)
    /\ (last.op = "get_all_instances" /\ last.q.k = "class" /\ last.st = "ok") =>
          \A j \in 1..Len(last.v.items) : InstanceOf(last.v.items[j], last.q.c)
    /\ \A i \in ObjectsMade :
          \A j \in 1..Len(ParamsOf(i)) :
              (/\ ParamsOf(i)[j].ann.k = "class"
               /\ field(last.log[i].v, j) # Omitted)
                  => InstanceOf(field(last.log[i].v, j), ParamsOf(i)[j].ann.c)

\* ---- C14

\* the one producer indexed for A and for B is p, made of the factory
\* that returns a generator yielding an A and a B
OnlyGenerator(p) ==
    /\ providers[p].kind # "const" /\ providers[p].f = "GenAB"
    /\ Indexed("A") = {p} /\ Indexed("B") = {p}

\* C14: the generator a factory returns is consumed once and kept as a
\* fixed collection: get_all_instances(Union[A, B]) over such a factory
\* invokes it at most once in the call and returns the A item followed by
\* the B item of its product.
C14_DrainOnce ==
    \A p \in 1..Len(providers) :
        (/\ last.op = "get_all_instances"
         /\ last.q = PyUnion(<<PyClass("A"), PyClass("B")>>)
         /\ OnlyGenerator(p)) =>
            /\ last.st = "ok"
            /\ InvocationsIn(last.log, p) <= 1
            /\ Len(last.v.items) = 2
            /\ InstanceOf(last.v.items[1], "A")
            /\ InstanceOf(last.v.items[2], "B")

\* ---- C15

\* provider p holds a registered tuple (a, b) with a: A and b: B
TupleInstance(p) ==
    /\ providers[p].kind = "const"
    /\ ClassOf(heap, providers[p].inst) = "tuple"
\* no provider after p produces a tuple
NewestTuple(p) ==
    \A n \in (p + 1)..Len(providers) :
        ~TupleInstance(n) /\ providers[n].f # "TupAB"

\* C15: when a tuple instance (a, b) is the most recently registered tuple
\* producer, resolve(Tuple[A, B]) returns that identical registered tuple;
\* when there is no tuple producer and the producers of A and of B are
\* registered instances, it returns a new tuple of the resolved components.
C15_TupleWholeFirst ==
    (last.op = "resolve" /\ last.q = PyTuple(<<PyClass("A"), PyClass("B")>>)) =>
        /\ \A p \in 1..Len(providers) :
              (TupleInstance(p) /\ NewestTuple(p)) =>
                  (last.st = "ok" /\ last.v = providers[p].inst)
        /\ (/\ NewestTuple(0)
            /\ InstancesNewestFirst("A", Len(providers)) # <<>>
            /\ InstancesNewestFirst("B", Len(providers)) # <<>>
            /\ \A p \in Indexed("A") \cup Indexed("B") : providers[p].kind = "const") =>
              /\ last.st = "ok"
              /\ last.v.k = "obj" /\ ClassOf(heap, last.v) = "tuple"
              /\ field(last.v, 1) = InstancesNewestFirst("A", Len(providers))[1]
              /\ field(last.v, 2) = InstancesNewestFirst("B", Len(providers))[1]

\* ---- C16

\* the container holds one registration besides itself
OneRegistration == Len(providers) = 2

\* C16: with a registered tuple (a, b), or a factory declared
\* -> Tuple[A, B], as the one registration, resolve(A) returns the tuple's A
\* component and resolve(B) its B component.
C16_TupleComponents ==
    (/\ ResolvedClass /\ last.q.c \in {"A", "B"}
     /\ OneRegistration) =>
        /\ TupleInstance(2) =>
              /\ last.st = "ok"
              /\ last.v = field(providers[2].inst, IF last.q.c = "A" THEN 1 ELSE 2)
        /\ (providers[2].kind # "const" /\ providers[2].f = "TupAB") =>
              /\ last.st = "ok"
              /\ InstanceOf(last.v, last.q.c)

\* ---- C17

\* the most recently registered producer indexed for c
Newest(c) == CHOOSE p \in Indexed(c) : \A n \in Indexed(c) : n <= p
\* every parameter of the factory of provider p is annotated with a class
\* whose producers are registered instances (one of them, or none at all)
PlainDeps(p) ==
    \A j \in 1..Len(factories(providers[p].f).params) :
        /\ factories(providers[p].f).params[j].ann.k = "class"
        /\ \A n \in Indexed(factories(providers[p].f).params[j].ann.c) :
              providers[n].kind = "const"
\* parameter j of provider p cannot be resolved
Missing(p, j) == Indexed(factories(providers[p].f).params[j].ann.c) = {}
\* ... and has no default either
Unsatisfied(p) ==
    \E j \in 1..Len(factories(providers[p].f).params) :
        Missing(p, j) /\ ~factories(providers[p].f).params[j].has_default
\* the last call asked a plain factory with parameters first
FactoryAskedFirst ==
    /\ ResolvedClass /\ Indexed(last.q.c) # {}
    /\ providers[Newest(last.q.c)].kind = "factory"
    /\ factories(providers[Newest(last.q.c)].f).params # <<>>
    /\ PlainDeps(Newest(last.q.c))

\* C17: while a factory is produced, a parameter that cannot be resolved is
\* left out of the call exactly when it has a default, and every other
\* parameter is passed its resolved value; when a parameter without default
\* cannot be resolved, the callable is not invoked and the resolve that asked
\* the factory raises ResolutionError.
C17_DefaultParameter ==
    FactoryAskedFirst =>
        IF Unsatisfied(Newest(last.q.c))
        THEN /\ last.st = "ResolutionError"
             /\ InvocationsIn(last.log, Newest(last.q.c)) = 0
        ELSE /\ InvocationsIn(last.log, Newest(last.q.c)) = 1
             /\ \A i \in ObjectsMade :
                   last.log[i].p = Newest(last.q.c) =>
                       \A j \in 1..Len(ParamsOf(i)) :
                           field(last.log[i].v, j) =
                               IF Missing(last.log[i].p, j) THEN Omitted
                               ELSE providers[Newest(ParamsOf(i)[j].ann.c)].inst

\* C17's case: the factory's parameter of class X has a default, no
\* producer of X is registered, and resolve(A) returned the object the
\* callable made without that argument.
C17_Witness ==
    /\ FactoryAskedFirst /\ last.st = "ok"
    /\ providers[Newest(last.q.c)].f = "AdefX"
    /\ Indexed("X") = {}
    /\ field(last.v, 1) = Omitted

\* ---- C18

\* the container the calls are made on
Self == Obj(1)
\* what the last call did with the Container type: resolve(Container)
\* returned v, or a factory was called with v for a parameter annotated
\* Container
GivenAsContainer(v) ==
    \/ /\ last.op = "resolve" /\ last.q = PyClass("Container")
       /\ last.st = "ok" /\ last.v = v
    \/ \E i \in ObjectsMade :
          \E j \in 1..Len(ParamsOf(i)) :
              /\ ParamsOf(i)[j].ann = PyClass("Container")
              /\ field(last.log[i].v, j) = v

\* C18 as claimed: after any sequence of registrations, resolve(Container)
\* returns the container itself and every factory parameter annotated with
\* the Container type receives the container itself.
C18_AlwaysSelf ==
    /\ (last.op = "resolve" /\ last.q = PyClass("Container")) => last.st = "ok"
    /\ \A n \in 1..Len(heap) : GivenAsContainer(Obj(n)) => Obj(n) = Self

\* C18 amended: the container stays registered with itself in every state,
\* resolve(Container) never fails for want of a producer, and as long as no
\* other producer indexed for the Container type has been registered,
\* resolve(Container) and every factory parameter annotated with the
\* Container type are given the container itself.
C18_SelfRegistration ==
    /\ 1 \in Indexed("Container")
    /\ providers[1] = ConstInstanceProvider(Self)
    /\ Indexed("Container") = {1} =>
          /\ (last.op = "resolve" /\ last.q = PyClass("Container")) =>
                (last.st = "ok" /\ last.v = Self)
          /\ \A n \in 1..Len(heap) : GivenAsContainer(Obj(n)) => Obj(n) = Self
          /\ \A n \in 1..Len(proxies) : ~GivenAsContainer(Proxy(n))

\* C18's case: after two registrations, none of them of a Container, a
\* factory with a parameter annotated Container was called with the
\* container itself.
C18_Witness ==
    /\ Len(providers) = 3 /\ Indexed("Container") = {1}
    /\ last.op = "resolve" /\ last.st = "ok"
    /\ \E i \in ObjectsMade :
          /\ providers[last.log[i].p].f = "AofContainer"
          /\ field(last.log[i].v, 1) = Self

\* ---- C19

\* the invocations of provider p in a log that returned v
InvocationsReturning(log, p, v) ==
    {i \in 1..Len(log) : log[i].e = "invoke" /\ log[i].p = p /\ log[i].v = v}

\* provider p is a factory registered with register_factory / register_class
\* and the call that ended as `call` was a resolve(T) of a class T that
\* reached p: p gave the query a value
Reached(call, p) ==
    /\ providers[p].kind = "factory"
    /\ call.op = "resolve" /\ call.q.k = "class"
    /\ DeliveredIn(call.log, p) # {}

\* C19: a factory registered with register_factory / register_class is
\* transient across calls. Every top-level resolve(T) that reaches it runs
\* its callable exactly once in that call, and what the factory gives the
\* call is the value of that invocation: never a placeholder, and when it is
\* an object, an object that did not exist before the call, so distinct from
\* everything the factory gave to earlier calls.
C19_Transient ==
    [][\A p \in 1..Len(providers) :
          Reached(last', p) =>
              /\ InvocationsIn(last'.log, p) = 1
              /\ \A v \in DeliveredIn(last'.log, p) :
                    /\ v.k # "proxy"
                    /\ InvocationsReturning(last'.log, p, v) # {}
                    /\ v.k = "obj" => (v.id > Len(heap) /\ v \notin delivered[p])
      ]_vars

\* ---- C20

FactoryRegistrations == {"register_factory", "register_singleton_factory"}

\* C20: register_factory / register_singleton_factory of a factory without
\* a declared return type raises TypeError from the call itself and leaves
\* the registry as it was, so that every later resolution sees the state it
\* would have seen without the call. Every such call either raises TypeError
\* and changes nothing but the record of the call, or stores one provider
\* whose factory declares a return type.
C20_MissingReturnType ==
    [][last'.op \in FactoryRegistrations =>
          IF last'.st = "TypeError"
          THEN UNCHANGED <<providers, providers_index, heap, proxies,
                           ncalls, invocations, delivered>>
          ELSE /\ last'.st = "ok"
               /\ Len(providers') = Len(providers) + 1
               /\ factories(providers'[Len(providers')].f).has_ret
      ]_vars

\* C20's case: with a provider registered, the registration of a singleton
\* factory raised TypeError, and the factory without a return type is not
\* among the providers.
C20_Witness ==
    /\ last.op = "register_singleton_factory" /\ last.st = "TypeError"
    /\ Len(providers) = 2
    /\ \A p \in 2..Len(providers) :
          providers[p].kind = "const" \/ factories(providers[p].f).has_ret

\* ---- C21

\* the callable the last call was made with, and its parameters
Lacking(f) ==
    {i \in 1..Len(factories(f).params) :
        /\ ~factories(f).params[i].has_ann
        /\ ~factories(f).params[i].has_default
        /\ factories(f).params[i].kind # "var_keyword"}

\* C21: registering a factory (or class) with a parameter, other than
\* **kwargs, that has neither annotation nor default raises TypeError at
\* registration, an unannotated *args included, and adds nothing to the
\* registry; every other factory with a return type is stored, and a
\* parameter without annotation but with a default is left out of the call
\* of the factory, which so uses its default.
C21_MissingAnnotation ==
    /\ [][last'.op \in FactoryRegistrations =>
             IF Lacking(last'.q.c) # {}
             THEN /\ last'.st = "TypeError"
                  /\ UNCHANGED <<providers, providers_index, heap, proxies,
                                 ncalls, invocations, delivered>>
             ELSE factories(last'.q.c).has_ret =>
                     /\ last'.st = "ok"
                     /\ Len(providers') = Len(providers) + 1
                     /\ providers'[Len(providers')].f = last'.q.c
                     /\ Len(providers') \in
                            SeqToSet(bucket(providers_index', ClassKey("A")))
        ]_vars
    /\ [](\A i \in ObjectsMade :
             \A j \in 1..Len(ParamsOf(i)) :
                 (~ParamsOf(i)[j].has_ann /\ ParamsOf(i)[j].has_default) =>
                     field(last.log[i].v, j) = Omitted)

\* C21's case: with a provider in the registry, the registration of
\* def f(*args) -> A raised TypeError.
C21_Witness ==
    /\ last.op \in FactoryRegistrations /\ last.st = "TypeError"
    /\ last.q = PyCallable("A_args")
    /\ Len(providers) = 2

\* ---- C22

\* C22 as claimed: a factory whose only parameters without annotation and
\* default are *args or **kwargs is accepted by register_factory, and a
\* **kwargs parameter is never resolved: nothing is passed for it.
C22_VariadicExempt ==
    /\ [][(/\ last'.op \in FactoryRegistrations
           /\ factories(last'.q.c).has_ret
           /\ \A i \in Lacking(last'.q.c) :
                 factories(last'.q.c).params[i].kind = "var_positional")
          => last'.st = "ok"]_vars
    /\ [](\A i \in ObjectsMade :
             \A j \in 1..Len(ParamsOf(i)) :
                 ParamsOf(i)[j].kind = "var_keyword" =>
                     field(last.log[i].v, j) = Omitted)

\* ---- C23

\* The union whose matches the last call listed: get_all_instances(Union[..])
\* or resolve(List[Union[..]]); PyNone when the last call was neither.
UnionListed ==
    CASE last.op = "get_all_instances" /\ last.q.k = "Union" -> last.q
      [] last.op = "resolve" /\ last.q.k = "List" /\ last.q.args[1].k = "Union" ->
            last.q.args[1]
      [] OTHER -> PyNone

\* the registered instances that match member i, i+1, .. of the union u:
\* member after member, each member's instances newest first
RECURSIVE MemberMatches(_, _)
MemberMatches(u, i) ==
    IF i > Len(u.args) THEN <<>>
    ELSE InstancesNewestFirst(u.args[i].c, Len(providers)) \o MemberMatches(u, i + 1)

\* the producers indexed for member i, i+1, .. of the union u: member after
\* member, each member's producers newest first
RECURSIVE Descending(_, _)
Descending(b, n) == IF n = 0 THEN <<>> ELSE <<b[n]>> \o Descending(b, n - 1)
RECURSIVE MemberProducers(_, _)
MemberProducers(u, i) ==
    IF i > Len(u.args) THEN <<>>
    ELSE Descending(bucket(providers_index, ClassKey(u.args[i].c)),
                    Len(bucket(providers_index, ClassKey(u.args[i].c))))
         \o MemberProducers(u, i + 1)

\* what the top-level query of the last call was given, yield after yield,
\* from log entry i on: the producers, and the items
RECURSIVE YieldingProducers(_)
YieldingProducers(i) ==
    IF i > Len(last.log) THEN <<>>
    ELSE (IF i \in TopYields THEN <<last.log[i].p>> ELSE <<>>)
         \o YieldingProducers(i + 1)
RECURSIVE YieldedItems(_)
YieldedItems(i) ==
    IF i > Len(last.log) THEN <<>>
    ELSE (IF i \in TopYields THEN last.log[i].v.items ELSE <<>>)
         \o YieldedItems(i + 1)

\* C23: get_all_instances(Union[T1..Tn]) and resolve(List[Union[T1..Tn]])
\* return the concatenation, in member order T1..Tn, of each member's own
\* matches, newest first within a member: the producers are asked member
\* after member, newest first within a member, the result lists what they
\* gave in that order, and when the producers are registered instances the
\* result is exactly the instances of T1 newest first, then those of T2, ...
C23_UnionMemberOrder ==
    UnionListed # PyNone =>
        /\ last.st = "ok" =>
              /\ YieldingProducers(1) = MemberProducers(UnionListed, 1)
              /\ last.v = ListV(YieldedItems(1))
        /\ (\A i \in 1..Len(UnionListed.args) :
               \A p \in Indexed(UnionListed.args[i].c) : providers[p].kind = "const")
           => /\ last.st = "ok"
              /\ last.v = ListV(MemberMatches(UnionListed, 1))

\* C23's case: an instance of A was registered, then an instance of B, and
\* resolve(List[Union[A, B]]) returned the A before the later registered B:
\* the member order decides, not the registration order.
C23_Witness ==
    /\ last.op = "resolve"
    /\ last.q = PyList(PyUnion(<<PyClass("A"), PyClass("B")>>))
    /\ Len(providers) = 3
    /\ providers[2].kind = "const" /\ ClassOf(heap, providers[2].inst) = "A"
    /\ providers[3].kind = "const" /\ ClassOf(heap, providers[3].inst) = "B"
    /\ last.v = ListV(<<providers[2].inst, providers[3].inst>>)

\* ---- C24

\* the top-level yields of the last call that gave the query something
GivingYields == {i \in TopYields : last.log[i].v.items # <<>>}

\* the members of the union query q are served by different producers
ServedByDifferentProducers(q) ==
    \A i, j \in 1..Len(q.args) :
        i # j => Indexed(q.args[i].c) \cap Indexed(q.args[j].c) = {}

\* C24 as claimed: for every query D, a class or a union of classes served
\* by different producers, get_all_instances(D) lists what the producers
\* gave in registry order: the matches of a more recently registered
\* producer come before the matches of every producer registered earlier.
C24_RegistryOrder ==
    (/\ last.op = "get_all_instances" /\ last.q.k \in {"class", "Union"}
     /\ last.q.k = "Union" => ServedByDifferentProducers(last.q)
     /\ last.st = "ok") =>
        /\ last.v = ListV(YieldedItems(1))
        /\ \A i, j \in GivingYields :
              i < j => last.log[i].p >= last.log[j].p

\* ---- C25

\* the call returned a stream: iter_all_instances(T) or resolve(Iterable[T])
StreamCall(call) ==
    \/ call.op = "iter_all_instances"
    \/ call.op = "resolve" /\ call.q.k = "Iterable"
\* the call returned a list of the instances of a class:
\* get_all_instances(c) or resolve(List[c])
ListedBy(call) ==
    CASE call.op = "get_all_instances" /\ call.q.k = "class" -> call.q.c
      [] call.op = "resolve" /\ call.q.k = "List" /\ call.q.args[1].k = "class" ->
            call.q.args[1].c
      [] OTHER -> ""

\* the producers the top-level query asked in a log, in the order asked, and
\* those of them that gave it nothing
RECURSIVE AskedInOrder(_, _)
AskedInOrder(log, i) ==
    IF i > Len(log) THEN <<>>
    ELSE (IF log[i].e = "get" /\ log[i].d = 0 THEN <<log[i].p>> ELSE <<>>)
         \o AskedInOrder(log, i + 1)
GaveNothing(log) ==
    {log[i].p : i \in {j \in 1..Len(log) :
                         log[j].e = "yield" /\ log[j].d = 0 /\ log[j].v.items = <<>>}}

\* where the stream g over the producers of a class stands: at the end of
\* the class's bucket, as it is when the first element is taken, before
\* that; below the last producer it asked afterwards
StandsAt(g) ==
    IF g.id = 0 THEN Len(bucket(providers_index, ClassKey(g.t.c))) ELSE g.id - 1
\* the stream the caller keeps is one over the producers of a class
ClassStream == stream # NoStream /\ stream.g.t.k = "ClassType"

\* C25: resolve(Iterable[T]) and iter_all_instances(T) return a fresh stream
\* without asking or invoking any producer; every element taken from the
\* stream asks the producers one at a time, newest first from where the
\* stream stands, and stops at the first that gives an element; whereas
\* resolve(List[T]) and get_all_instances(T) have asked every producer of T
\* when they return their list.
C25_StreamLaziness ==
    /\ [][/\ StreamCall(last') =>
                /\ last'.st = "ok" /\ last'.log = <<>>
                /\ last'.v = Generator(last'.v.t)
                /\ UNCHANGED <<providers, providers_index, heap, proxies,
                               invocations, delivered>>
          /\ (last'.op = "next" /\ ncalls' # ncalls /\ ClassStream) =>
                /\ \A k \in 1..Len(AskedInOrder(last'.log, 1)) :
                      AskedInOrder(last'.log, 1)[k] =
                          bucket(providers_index, ClassKey(stream.g.t.c))
                              [StandsAt(stream.g) + 1 - k]
                /\ \A p \in 1..Len(providers) :
                      InvocationsIn(last'.log, p) > 0 =>
                          \E i \in 1..Len(last'.log) :
                              last'.log[i].e = "get" /\ last'.log[i].p = p
                /\ last'.st = "ok" =>
                      /\ AskedInOrder(last'.log, 1) # <<>>
                      /\ stream'.g.id - 1 =
                            StandsAt(stream.g) - Len(AskedInOrder(last'.log, 1))
                      /\ stream'.g.items = <<last'.v>>
                      /\ \A k \in 1..(Len(AskedInOrder(last'.log, 1)) - 1) :
                            AskedInOrder(last'.log, 1)[k] \in GaveNothing(last'.log)
                /\ last'.st = "StopIteration" =>
                      /\ Len(AskedInOrder(last'.log, 1)) = StandsAt(stream.g)
                      /\ \A k \in 1..Len(AskedInOrder(last'.log, 1)) :
                            AskedInOrder(last'.log, 1)[k] \in GaveNothing(last'.log)
         ]_vars
    /\ []((ListedBy(last) # "" /\ last.st = "ok") =>
             /\ last.v.k = "list"
             /\ SeqToSet(AskedInOrder(last.log, 1)) = Indexed(ListedBy(last)))

\* C25's case: two factories of A were registered, a stream of A was taken
\* and two elements of it: the second element invoked the older factory,
\* which had not run before, and not the newer one again.
C25_Witness ==
    /\ last.op = "next" /\ last.st = "ok" /\ ncalls = 2
    /\ Len(providers) = 3
    /\ providers[2].kind = "factory" /\ providers[3].kind = "factory"
    /\ invocations = <<0, 1, 1>>
    /\ InvocationsIn(last.log, 2) = 1 /\ InvocationsIn(last.log, 3) = 0

\* ---- C30

\* C30 as claimed: between the calls, and between two elements taken from a
\* stream, the recursion guard of every producer is empty; hence a producer
\* whose factory has not run before the last call, whatever failed before,
\* gives the top-level query of the call a value only by running its
\* factory in that call, and the value is a real instance, not a
\* placeholder.
C30_GuardReleased ==
    /\ \A p \in 1..Len(providers) : providers[p].guard = None
    /\ \A i \in TopGets :
          (/\ last.log[i].st = "ok"
           /\ providers[last.log[i].p].kind # "const"
           /\ invocations[last.log[i].p] = InvocationsIn(last.log, last.log[i].p))
          => /\ InvocationsIn(last.log, last.log[i].p) >= 1
             /\ last.log[i].v.k # "proxy"

\* ---- C26

\* a tuple descriptor whose components are classes
TupleOfClasses(d) ==
    d.k = "TupleType" /\ \A i \in 1..Len(d.ts) : d.ts[i] \in ClassDescriptors

\* C26 as claimed: TupleType(a1..an).contains(TupleType(b1..bm)) is true iff
\* n = m and ai contains bi for every i (for classes: bi is ai or a subclass
\* of ai); tuples of different arity never contain one another.
C26_TupleContains ==
    (/\ asked.m = "contains"
     /\ TupleOfClasses(asked.self) /\ TupleOfClasses(asked.other)) =>
        asked.out =
            Bool(/\ Len(asked.self.ts) = Len(asked.other.ts)
                 /\ \A i \in 1..Len(asked.self.ts) :
                       issubclass(asked.other.ts[i].c, asked.self.ts[i].c))

\* ---- C27

\* C27 as claimed: UnionType(m1..mn).contains(other) never fails, for a
\* union as other too: it is true iff some member contains other and false
\* otherwise.
C27_UnionContainsTotal ==
    (asked.m = "contains" /\ asked.self.k = "UnionType") =>
        /\ asked.out \in {"True", "False"}
        /\ asked.out =
              Bool(\E i \in 1..Len(asked.self.ts) :
                      contains(asked.self.ts[i], asked.other) = "True")

\* ---- C28

\* C28 as claimed: hash(d) is defined for every descriptor, equal
\* descriptors have equal hashes, and two unions with the same set of
\* members are equal whatever the order of the members.
C28_HashableValues ==
    /\ asked.m = "hash" => asked.out.st = "ok"
    /\ (asked.m = "eq" /\ asked.out = "True") =>
          /\ hash(asked.self).st = "ok"
          /\ hash(asked.self) = hash(asked.other)
    /\ (/\ asked.m = "eq"
        /\ asked.self.k = "UnionType" /\ asked.other.k = "UnionType"
        /\ SeqToSet(asked.self.ts) = SeqToSet(asked.other.ts)) =>
          asked.out = "True"

\* ---- C29

\* C29 as claimed: ClassType(P).resolves(ClassType(C)) is true iff C is P or
\* a subclass of P; TupleType(a1..an).resolves(other) is true iff other is a
\* tuple of the same arity resolved component by component, or some
\* component ai resolves other directly (for class components: other is the
\* class ai or a subclass of it).
C29_Resolves ==
    /\ (/\ asked.m = "resolves"
        /\ asked.self \in ClassDescriptors /\ asked.other \in ClassDescriptors) =>
          asked.out = Bool(issubclass(asked.other.c, asked.self.c))
    /\ (/\ asked.m = "resolves" /\ TupleOfClasses(asked.self)
        /\ (asked.other \in ClassDescriptors \/ TupleOfClasses(asked.other))) =>
          asked.out =
              Bool(\/ /\ asked.other.k = "TupleType"
                      /\ Len(asked.self.ts) = Len(asked.other.ts)
                      /\ \A i \in 1..Len(asked.self.ts) :
                            issubclass(asked.other.ts[i].c, asked.self.ts[i].c)
                   \/ /\ asked.other.k = "ClassType"
                      /\ \E i \in 1..Len(asked.self.ts) :
                            issubclass(asked.other.c, asked.self.ts[i].c))

\* ---- C33

\* the calls that read the registry
ReadOps == {"resolve", "get_all_instances", "iter_all_instances", "consume", "next"}
Prefix(a, b) == Len(a) <= Len(b) /\ SubSeq(b, 1, Len(a)) = a
\* the type the provider pr advertises (get_type), hp the heap
AdvertisedType(pr, hp) ==
    IF pr.kind = "const" THEN ClassType(ClassOf(hp, pr.inst))
    ELSE python_type_to_meta(factories(pr.f).ret)
\* how often the class key occurs among the terminal types terms
Occurrences(terms, key) ==
    Cardinality({i \in 1..Len(terms) :
                    terms[i].k = "ClassType" /\ ClassKey(terms[i].c) = key})
NoneTerminals(terms) ==
    Cardinality({i \in 1..Len(terms) : terms[i].k = "NoneTerminalType"})
Repeated(p, n) == [i \in 1..n |-> p]
NoneKeys(index) == {x \in DOMAIN index : x.k = "NoneTerminalType"}

\* C33: the registry is append-only and reads do not change it: over every
\* step, the bucket of every key before the step is a prefix of its bucket
\* after the step; a registration that is accepted appends the new producer
\* to the bucket of each terminal type of its advertised type (for a None
\* terminal: to a bucket of its own) and to no other; resolve,
\* get_all_instances, iter_all_instances and the consumption of a stream
\* leave every bucket as it was, whether they return or raise.
C33_RegistryAppendOnly ==
    [][/\ \A key \in DOMAIN providers_index \cup DOMAIN providers_index' :
             Prefix(bucket(providers_index, key), bucket(providers_index', key))
       /\ last'.op \in ReadOps =>
             \A key \in DOMAIN providers_index \cup DOMAIN providers_index' :
                 bucket(providers_index', key) = bucket(providers_index, key)
       /\ Len(providers') > Len(providers) =>
             LET p == Len(providers')
                 terms == iterate_possible_terminal_types(
                              AdvertisedType(providers'[p], heap'))
             IN /\ p = Len(providers) + 1
                /\ \A key \in {x \in DOMAIN providers_index \cup DOMAIN providers_index' :
                                   x.k = "ClassType"} :
                      bucket(providers_index', key) =
                          bucket(providers_index, key)
                              \o Repeated(p, Occurrences(terms, key))
                /\ \A i \in 1..Len(terms) :
                      terms[i].k = "ClassType" =>
                          ClassKey(terms[i].c) \in DOMAIN providers_index'
                /\ \A key \in NoneKeys(providers_index) :
                      providers_index'[key] = providers_index[key]
                /\ Cardinality(NoneKeys(providers_index')) =
                      Cardinality(NoneKeys(providers_index)) + NoneTerminals(terms)
                /\ \A key \in NoneKeys(providers_index') \ NoneKeys(providers_index) :
                      providers_index'[key] = <<p>>
      ]_vars

\* C33's case: with two producers registered after the container itself, a
\* resolve of a class that nothing provides raised, and the registry holds
\* the buckets of the registrations and an empty bucket for the class.
C33_Witness ==
    /\ last.op = "resolve" /\ last.q.k = "class" /\ last.st = "ResolutionError"
    /\ Len(providers) = 3
    /\ bucket(providers_index, ClassKey(last.q.c)) = <<>>
    /\ \E key \in DOMAIN providers_index : Len(providers_index[key]) = 2

\* ---- C31

\* the assignments of a value other than None to the memo of provider p
MemoWrites(log, p) ==
    {i \in 1..Len(log) : log[i].e = "memo" /\ log[i].p = p /\ log[i].v # None}

\* C31 as claimed: the memo of a singleton is written at most once: a call
\* that finds the memo filled does not assign it, a call assigns a value to
\* it at most once, and the value assigned is never a cycle placeholder but
\* the object an invocation of the singleton's callable returned.
C31_MemoWrittenOnce ==
    /\ [][\A p \in 1..Len(providers) :
             (providers[p].kind = "singleton" /\ providers[p].memo # None)
                 => /\ MemoWrites(last'.log, p) = {}
                    /\ providers'[p].memo = providers[p].memo]_vars
    /\ [](\A p \in 1..Len(providers) :
             providers[p].kind = "singleton" =>
                 /\ Cardinality(MemoWrites(last.log, p)) <= 1
                 /\ \A i \in MemoWrites(last.log, p) :
                       /\ last.log[i].v.k # "proxy"
                       /\ InvocationsReturning(last.log, p, last.log[i].v) # {})

\* ---- C32

\* the values a value refers to: the attributes of an object, the items of
\* a list, what backs an initialized proxy
Referred(v) ==
    CASE v.k = "obj" -> SeqToSet(heap[v.id].fields)
      [] v.k = "list" -> SeqToSet(v.items)
      [] v.k = "proxy" -> IF proxies[v.id].init THEN {proxies[v.id].v} ELSE {}
      [] OTHER -> {}
\* the values reachable from the values vs in at most n references
RECURSIVE ReachableFrom(_, _)
ReachableFrom(vs, n) ==
    IF n = 0 THEN vs
    ELSE ReachableFrom(vs \cup UNION {Referred(v) : v \in vs}, n - 1)
Retained(p) == ReachableFrom({providers[p].memo}, Len(heap) + Len(proxies))
\* the values the callable that made the object of log entry i was called with
HandedTo(i) ==
    SeqToSet(heap[last.log[i].v.id].fields)
        \cup UNION {SeqToSet(a.items) : a \in SeqToSet(heap[last.log[i].v.id].fields)}
\* the providers that answered with the value v during the last call
AnsweredWith(v) ==
    {last.log[i].p : i \in {j \in 1..Len(last.log) :
                                last.log[j].e = "get" /\ last.log[j].v = v}}

\* C32 as claimed: after every top-level call, whether it returned or
\* raised, nothing the container retains (the memo of a singleton and what
\* is reachable from it) is a placeholder without a backing value; and
\* after a call that succeeded every placeholder that was handed to a
\* factory during the call is backed by the value its own producer returned.
C32_NoStrandedPlaceholder ==
    /\ \A p \in 1..Len(providers) :
          providers[p].kind = "singleton" =>
              \A v \in Retained(p) : v.k = "proxy" => proxies[v.id].init
    /\ (last.op \in {"resolve", "get_all_instances", "consume"} /\ last.st = "ok") =>
          \A i \in {j \in 1..Len(last.log) :
                        last.log[j].e = "invoke" /\ last.log[j].v.k = "obj"} :
              \A v \in HandedTo(i) :
                  v.k = "proxy" =>
                      /\ proxies[v.id].init
                      /\ \E p \in AnsweredWith(v) :
                            InvocationsReturning(last.log, p, proxies[v.id].v) # {}

\* ---- C34

\* The leaves the claim describes: the value when the type accepts it, the
\* leaves of its items when it is a collection of further values (a list,
\* a tuple), nothing for any other value, a text string among them.
RECURSIVE AcceptedLeaves(_, _, _)
RECURSIVE AcceptedLeavesOf(_, _, _, _)
AcceptedLeavesOf(hp, items, t, i) ==
    IF i > Len(items) THEN <<>>
    ELSE AcceptedLeaves(hp, items[i], t) \o AcceptedLeavesOf(hp, items, t, i + 1)
AcceptedLeaves(hp, v, t) ==
    IF type_check_object(hp, t, v) THEN <<v>>
    ELSE IF v.k = "list" THEN AcceptedLeavesOf(hp, v.items, t, 1)
    ELSE IF v.k = "obj" /\ ClassOf(hp, v) \in Iterables
    THEN AcceptedLeavesOf(hp, hp[v.id].fields, t, 1)
    ELSE <<>>

\* C34 as claimed: filter_instances_of_terminal_type(value, T) terminates
\* for every finite value, a text string taken as an atomic leaf, and yields
\* exactly the accepted leaves in iteration order.
C34_FlatteningTerminates ==
    asked.m = "filter_instances_of_terminal_type" =>
        /\ asked.out.st = "ok"
        /\ asked.out.v = AcceptedLeaves(FlattenHeap, asked.self, asked.other)

\* ---- C35

\* provider p is a singleton over the generator factory, the only producer
\* of A, and has memoized its product
MemoizedGenerator(p) ==
    /\ providers[p].kind = "singleton" /\ providers[p].f = "GenAB"
    /\ Indexed("A") = {p}
    /\ providers[p].memo.k = "obj"
\* the A the generator that provider p memoized yields (the first object
\* made after the generator itself)
ItemA(p) == Obj(providers[p].memo.id + 1)

\* C35 as claimed: with a singleton factory that returns a one-pass
\* sequence, every get_all_instances(A) call, the first and every later
\* one, returns the same non-empty list: the A of the memoized sequence.
C35_SingletonSequenceStable ==
    \A p \in 1..Len(providers) :
        (/\ last.op = "get_all_instances" /\ last.q = PyClass("A")
         /\ MemoizedGenerator(p)) =>
            /\ last.st = "ok"
            /\ last.v.items = <<ItemA(p)>>

\* ---- C36

\* the positions of the list the last call returned that hold the value v
PositionsOf(v) == {i \in 1..Len(last.v.items) : last.v.items[i] = v}

\* C36 as claimed: get_all_instances(Union[T1, T2]) holds the instance of
\* every registered producer at most once, also when the producer is
\* indexed under both T1 and T2.
C36_NoDuplicatesAcrossMembers ==
    (last.op = "get_all_instances" /\ last.q.k = "Union" /\ last.st = "ok") =>
        \A p \in 1..Len(providers) :
            providers[p].kind = "const" =>
                Cardinality(PositionsOf(providers[p].inst)) <= 1
====
